---- MODULE Spec2Model ----
(***************************************************************************)
(* astcenc_internal.h, in seven parts.                                     *)
(*                                                                         *)
(* ParallelManager: the counter-based manager for parallel task execution  *)
(* (init / get_task_assignment / complete_task_assignment / wait / term /  *)
(* reset), run by worker threads that follow the usage model documented in *)
(* the class comment.  Specifications Spec and FairSpec.                   *)
(*                                                                         *)
(* ParallelManager called outside the usage model: wait() before init(),   *)
(* get_task_assignment() with granule 0, and complete_task_assignment() as *)
(* separate read and write steps under the lock.  Specification CallSpec.  *)
(*                                                                         *)
(* The integer sequence codec: quant_method, get_quant_level and the BISE  *)
(* functions encode_ise, decode_ise and get_ise_sequence_bitcount that the *)
(* header declares.  Specification IseSpec.                                *)
(*                                                                         *)
(* block_size_descriptor: the packed block mode table and get_block_mode,  *)
(* the partition table and get_partition_table / get_partition_info, and   *)
(* the partition_info and decimation_info records the table build fills.   *)
(* Specification BsdSpec.                                                  *)
(*                                                                         *)
(* The conversions between the physical and the symbolic form of a         *)
(* compressed block, physical_to_symbolic and symbolic_to_physical, with   *)
(* the endpoint_formats enum.  Specification PhysSpec.                     *)
(*                                                                         *)
(* image_block: get_default_alpha, is_luminance and is_luminancealpha.     *)
(* Specification ImgSpec.                                                  *)
(*                                                                         *)
(* aligned_malloc, in the _WIN32 build and in the posix_memalign build.    *)
(* Specification MemSpec.                                                  *)
(***************************************************************************)
EXTENDS Integers, FiniteSets, Sequences, TLC

\* ------------------------------------------------------------------ bounds
NumThreads == 2
MaxTasks == 3
MaxGranule == 2
MaxHugeCalls == 1
MaxChars == 5
MaxBitOffset == 3
MaxBadMethods == 2
ModeBits == 2
MaxPartTexels == 4
MaxDim2D == 8
MaxDim3D == 4
MaxFill == 3
MaxStep == 1
MaxLnsTexels == 2
MaxPtr == 2
MaxSize == 1

Threads == 1..NumThreads
NoThread == 0
TaskIds == 0..(MaxTasks - 1)

\* ------------------------------------------------- unsigned int (32 bits)
\* An unsigned int is kept as <<high 16 bits, low 16 bits>>, so that the
\* arithmetic below is the arithmetic modulo 2^32 of the C++ type.
Half == 65536

ToU32(n) == <<0, n>>

UINT_MAX == <<Half - 1, Half - 1>>

Add32(a, b) ==
    LET lo == a[2] + b[2]
        hi == a[1] + b[1] + (lo \div Half)
    IN  <<hi % Half, lo % Half>>

Sub32(a, b) ==
    LET lo == a[2] - b[2]
        borrow == IF lo < 0 THEN 1 ELSE 0
        hi == a[1] - b[1] - borrow
    IN  <<(hi + Half) % Half, (lo + Half) % Half>>

Lt32(a, b) == a[1] < b[1] \/ (a[1] = b[1] /\ a[2] < b[2])

Min32(a, b) == IF Lt32(a, b) THEN a ELSE b

\* The granules a worker may pass: small ones, and the largest unsigned int.
Granules == {ToU32(g) : g \in 1..MaxGranule} \cup {UINT_MAX}

VARIABLES
    m_lock,         \* owner of the mutex, NoThread when free
    m_init_done,
    m_term_done,
    m_start_count,  \* std::atomic<unsigned int>, as a 32 bit value
    m_done_count,
    m_task_count,
    pc,             \* where each worker is in the usage model
    ret,            \* the caller's base_index: get_task_assignment's result
    count,          \* the caller's task_count: the out parameter
    init_running,   \* threads whose init_func callable is executing
    term_running,   \* threads whose term_func callable is executing
    after_reset,    \* history: reset() has been called since construction
    init_runs,      \* history: initializations performed in this batch (an
                    \* init_func executed, or init(unsigned int)'s store)
    init_ret,       \* history: the task count the initialization supplied
    init_entered,   \* history: a thread has entered init()'s critical section
    init_by_first,  \* history: every initialization of this batch was done
                    \* by the first thread to enter that critical section
    term_runs,      \* history: executions of a term_func in this batch
    term_entered,   \* history: a thread has entered term()'s critical section
    term_by_first,  \* history: every term_func of this batch was run by the
                    \* first thread to enter that critical section
    assigned,       \* history: times each task index was handed out
    completed,      \* history: times each task index was flagged complete
    huge_calls      \* history: calls made with granule UINT_MAX

mgr == <<m_lock, m_init_done, m_term_done, m_start_count, m_done_count, m_task_count>>
locals == <<ret, count>>
hist_init == <<init_runs, init_ret, init_entered, init_by_first>>
hist_term == <<term_runs, term_entered, term_by_first>>
hist_task == <<assigned, completed, huge_calls>>
manager == <<mgr, pc, locals, init_running, term_running, after_reset,
             hist_init, hist_term, hist_task>>

\* --------------------------------------------- integer sequence codec state
VARIABLES
    quant_level,     \* the quant_method argument of the codec functions
    character_count, \* the number of characters in the sequence
    input_data,      \* encode_ise's input: one character per element
    bit_offset,      \* the bit position in the buffer where the sequence starts
    output_data,     \* the byte buffer encode_ise writes and decode_ise reads
    decoded,         \* decode_ise's output: one character per element
    level,           \* get_quant_level's result
    bitcount,        \* get_ise_sequence_bitcount's result
    bits_written,    \* history: the number of bits encode_ise wrote
    ise_pc           \* position in the codec's call sequence

ise_vars == <<quant_level, character_count, input_data, bit_offset, output_data,
              decoded, level, bitcount, bits_written, ise_pc>>

\* The codec's state while no codec function is in use.
ise_unused ==
    /\ quant_level = 0
    /\ character_count = 0
    /\ input_data = <<>>
    /\ bit_offset = 0
    /\ output_data = <<>>
    /\ decoded = <<>>
    /\ level = 0
    /\ bitcount = 0
    /\ bits_written = 0
    /\ ise_pc = "unused"

\* ------------------------------------------- block size descriptor state
VARIABLES
    block_mode_count,        \* bsd.block_mode_count
    block_modes,             \* bsd.block_modes: the active modes, from index 0
    block_mode_packed_index, \* bsd.block_mode_packed_index, by raw block mode
    block_mode,              \* get_block_mode's argument and result
    partition_args,          \* get_partition_info's arguments
    partition_slot,          \* get_partition_info's result: its index in
                             \* bsd.partitions
    texel_count,             \* bsd.texel_count
    pi,                      \* a partition_info as the table build fills it
    di,                      \* a decimation_info as the table build fills it
    bsd_pc                   \* the operation performed on the descriptor

bsd_vars == <<block_mode_count, block_modes, block_mode_packed_index, block_mode,
              partition_args, partition_slot, texel_count, pi, di, bsd_pc>>

\* The descriptor's state while it is not in use.
bsd_unused ==
    /\ block_mode_count = 0
    /\ block_modes = <<>>
    /\ block_mode_packed_index = <<>>
    /\ block_mode = <<>>
    /\ partition_args = <<>>
    /\ partition_slot = 0
    /\ texel_count = 0
    /\ pi = <<>>
    /\ di = <<>>
    /\ bsd_pc = "unused"

\* ------------------------------------- symbolic and physical block state
VARIABLES
    pcb,      \* a physical_compressed_block: its 16 bytes
    scb,      \* the symbolic_compressed_block physical_to_symbolic made of pcb
    in_range, \* whether every table index and bit position of that call was
              \* inside its table or block
    pcb_out,  \* the physical block symbolic_to_physical made of scb
    scb_out,  \* the symbolic block physical_to_symbolic made of pcb_out
    phys_pc   \* position in the conversion sequence

phys_vars == <<pcb, scb, in_range, pcb_out, scb_out, phys_pc>>

\* The blocks' state while no conversion is in use.
phys_unused ==
    /\ pcb = <<>>
    /\ scb = <<>>
    /\ in_range = TRUE
    /\ pcb_out = <<>>
    /\ scb_out = <<>>
    /\ phys_pc = "unused"

\* ------------------------------ complete_task_assignment, step by step
VARIABLES
    done_read,    \* the value of m_done_count that a thread inside
                  \* complete_task_assignment has read for its +=
    zero_granule  \* history: the thread's last get_task_assignment call, the
                  \* one that ended its loop, passed granule 0

call_vars == <<done_read, zero_granule>>

\* No thread is inside a += of m_done_count or has passed granule 0.
call_unused ==
    /\ done_read = [t \in Threads |-> 0]
    /\ zero_granule = [t \in Threads |-> FALSE]

\* ------------------------------------------------------------ image_block
VARIABLES
    grayscale,      \* image_block::grayscale
    alpha_lns,      \* image_block::alpha_lns, the first MaxLnsTexels entries
    data_min,       \* image_block::data_min, lane 3 (alpha)
    data_max,       \* image_block::data_max, lane 3 (alpha)
    luminance,      \* what is_luminance() returned
    luminancealpha, \* what is_luminancealpha() returned
    img_pc          \* "start", "luminance", "both"; "unused" elsewhere

img_vars == <<grayscale, alpha_lns, data_min, data_max, luminance,
              luminancealpha, img_pc>>

\* No image block is under test.
img_unused ==
    /\ grayscale = FALSE
    /\ alpha_lns = <<>>
    /\ data_min = 0
    /\ data_max = 0
    /\ luminance = FALSE
    /\ luminancealpha = FALSE
    /\ img_pc = "unused"

\* --------------------------------------------------------- aligned_malloc
VARIABLES
    win32,      \* whether _WIN32 is defined in the build
    size,       \* parameter size
    align,      \* parameter align
    ptr,        \* local void* ptr
    error,      \* local int error
    ptr_set,    \* history: the allocator has stored a pointer in ptr
    result,     \* the pointer returned
    mem_pc      \* "entry", "declared", "allocated", "returned"; "unused" elsewhere

mem_vars == <<win32, size, align, ptr, error, ptr_set, result, mem_pc>>

\* No allocation is under test.
mem_unused ==
    /\ win32 = FALSE
    /\ size = 0
    /\ align = 0
    /\ ptr = 0
    /\ error = 0
    /\ ptr_set = FALSE
    /\ result = 0
    /\ mem_pc = "unused"

vars == <<manager, ise_vars, bsd_vars, phys_vars, call_vars, img_vars,
         mem_vars>>

\* ------------------------------------------------------------------ reset
\* Mutant of reset_fields: m_start_count is not cleared.
reset_fields_nostart ==
    /\ m_init_done' = FALSE
    /\ m_term_done' = FALSE
    /\ m_start_count' = m_start_count
    /\ m_done_count' = 0
    /\ m_task_count' = 0

\* Mutant of reset_fields: m_done_count is not cleared.
reset_fields_nodone ==
    /\ m_init_done' = FALSE
    /\ m_term_done' = FALSE
    /\ m_start_count' = ToU32(0)
    /\ m_done_count' = m_done_count
    /\ m_task_count' = 0

\* reset(): the five assignments of the method.
reset_fields ==
    /\ m_init_done' = FALSE
    /\ m_term_done' = FALSE
    /\ m_start_count' = ToU32(0)
    /\ m_done_count' = 0
    /\ m_task_count' = 0

\* The state the constructor leaves (it calls reset()), no worker started.
ParallelManager ==
    /\ m_lock = NoThread
    /\ m_init_done = FALSE
    /\ m_term_done = FALSE
    /\ m_start_count = ToU32(0)
    /\ m_done_count = 0
    /\ m_task_count = 0
    /\ pc = [t \in Threads |-> "init"]
    /\ ret = [t \in Threads |-> 0]
    /\ count = [t \in Threads |-> 0]
    /\ init_running = {}
    /\ term_running = {}
    /\ after_reset = FALSE
    /\ init_runs = 0
    /\ init_ret = 0
    /\ init_entered = FALSE
    /\ init_by_first = TRUE
    /\ term_runs = 0
    /\ term_entered = FALSE
    /\ term_by_first = TRUE
    /\ assigned = [i \in TaskIds |-> 0]
    /\ completed = [i \in TaskIds |-> 0]
    /\ huge_calls = 0

\* reset() from single-threaded code: every worker of the previous batch has
\* left term(); the workers of the next batch then start at init().
reset ==
    /\ \A t \in Threads : pc[t] = "done"
    /\ reset_fields
    /\ pc' = [t \in Threads |-> "init"]
    /\ ret' = [t \in Threads |-> 0]
    /\ count' = [t \in Threads |-> 0]
    /\ after_reset' = TRUE
    /\ init_runs' = 0
    /\ init_ret' = 0
    /\ init_entered' = FALSE
    /\ init_by_first' = TRUE
    /\ term_runs' = 0
    /\ term_entered' = FALSE
    /\ term_by_first' = TRUE
    /\ assigned' = [i \in TaskIds |-> 0]
    /\ completed' = [i \in TaskIds |-> 0]
    /\ huge_calls' = 0
    /\ UNCHANGED <<m_lock, init_running, term_running>>

\* ------------------------------------------------------------------- init
\* Mutant of init_enter: init() without the lock_guard.
init_enter_nolock(t) ==
    /\ pc[t] = "init"
    /\ init_entered' = TRUE
    /\ IF ~m_init_done
       THEN /\ pc' = [pc EXCEPT ![t] = "init_call"]
            /\ init_running' = init_running \cup {t}
            /\ init_runs' = init_runs + 1
            /\ init_by_first' = (init_by_first /\ ~init_entered)
       ELSE /\ pc' = [pc EXCEPT ![t] = "get"]
            /\ UNCHANGED <<init_running, init_runs, init_by_first>>
    /\ UNCHANGED <<mgr, locals, term_running, after_reset, init_ret,
                   hist_term, hist_task>>

\* init(init_func), up to the call of init_func: take m_lock, test m_init_done.
\* A thread that finds the flag set returns (the lock_guard releases m_lock).
init_enter(t) ==
    /\ pc[t] = "init"
    /\ m_lock = NoThread
    /\ init_entered' = TRUE
    /\ IF ~m_init_done
       THEN /\ m_lock' = t
            /\ pc' = [pc EXCEPT ![t] = "init_call"]
            /\ init_running' = init_running \cup {t}
            /\ init_runs' = init_runs + 1
            /\ init_by_first' = (init_by_first /\ ~init_entered)
       ELSE /\ pc' = [pc EXCEPT ![t] = "get"]
            /\ UNCHANGED <<m_lock, init_running, init_runs, init_by_first>>
    /\ UNCHANGED <<m_init_done, m_term_done, m_start_count, m_done_count,
                   m_task_count, locals, term_running, after_reset, init_ret,
                   hist_term, hist_task>>

\* Mutant of init_return: m_init_done is not set.
init_return_noflag(t, v) ==
    /\ pc[t] = "init_call"
    /\ m_task_count' = v
    /\ m_lock' = NoThread
    /\ pc' = [pc EXCEPT ![t] = "get"]
    /\ init_running' = init_running \ {t}
    /\ init_ret' = v
    /\ UNCHANGED <<m_init_done, m_term_done, m_start_count, m_done_count,
                   locals, term_running, after_reset, init_runs, init_entered,
                   init_by_first, hist_term, hist_task>>

\* init(init_func), from the return of init_func (with value v) to the end:
\* m_task_count = init_func(); m_init_done = true; release m_lock.
init_return(t, v) ==
    /\ pc[t] = "init_call"
    /\ m_task_count' = v
    /\ m_init_done' = TRUE
    /\ m_lock' = NoThread
    /\ pc' = [pc EXCEPT ![t] = "get"]
    /\ init_running' = init_running \ {t}
    /\ init_ret' = v
    /\ UNCHANGED <<m_term_done, m_start_count, m_done_count, locals,
                   term_running, after_reset, init_runs, init_entered,
                   init_by_first, hist_term, hist_task>>

\* Mutant of init_count: m_init_done is not tested.
init_count_always(t, n) ==
    /\ pc[t] = "init"
    /\ m_lock = NoThread
    /\ init_entered' = TRUE
    /\ m_task_count' = n
    /\ m_init_done' = TRUE
    /\ init_runs' = init_runs + 1
    /\ init_ret' = n
    /\ init_by_first' = (init_by_first /\ ~init_entered)
    /\ pc' = [pc EXCEPT ![t] = "get"]
    /\ UNCHANGED <<m_lock, m_term_done, m_start_count, m_done_count, locals,
                   init_running, term_running, after_reset, hist_term,
                   hist_task>>

\* init(unsigned int task_count): the whole critical section.
init_count(t, n) ==
    /\ pc[t] = "init"
    /\ m_lock = NoThread
    /\ init_entered' = TRUE
    /\ IF ~m_init_done
       THEN /\ m_task_count' = n
            /\ m_init_done' = TRUE
            /\ init_runs' = init_runs + 1
            /\ init_ret' = n
            /\ init_by_first' = (init_by_first /\ ~init_entered)
       ELSE UNCHANGED <<m_task_count, m_init_done, init_runs, init_ret,
                        init_by_first>>
    /\ pc' = [pc EXCEPT ![t] = "get"]
    /\ UNCHANGED <<m_lock, m_term_done, m_start_count, m_done_count, locals,
                   init_running, term_running, after_reset, hist_term,
                   hist_task>>

\* ---------------------------------------------------- get_task_assignment
\* The task indices of the range [b, b + c).
Range(b, c) == {i \in TaskIds : b <= i /\ i < b + c}

Bump(f, S) == [i \in TaskIds |-> IF i \in S THEN f[i] + 1 ELSE f[i]]

\* Mutant of assigned_count: the granule is handed out without the min().
assigned_count_nomin(b, tc, g) ==
    IF ~Lt32(b, tc) THEN ToU32(0) ELSE g

\* Mutant of assigned_count: everything that remains is handed out.
assigned_count_remaining(b, tc, g) ==
    IF ~Lt32(b, tc) THEN ToU32(0) ELSE Sub32(tc, b)

\* get_task_assignment: the value stored in count, for b the value fetch_add
\* returned, tc the task count and g the granule.
assigned_count(b, tc, g) ==
    IF ~Lt32(b, tc) THEN ToU32(0) ELSE Min32(Sub32(tc, b), g)

\* get_task_assignment: the value returned.
assigned_base(b, tc) ==
    IF ~Lt32(b, tc) THEN ToU32(0) ELSE b

\* m_start_count.fetch_add(granule): the new value of the counter.
fetch_add(c, g) == Add32(c, g)

\* get_task_assignment(granule, count), and the branch the usage model's loop
\* takes on its result: process the tasks, or leave the loop for wait().
\* A non-zero count is at most the task count, so it and the base returned
\* with it are below 2^16 and are kept as plain numbers.
get_task_assignment(t, g) ==
    LET c == assigned_count(m_start_count, ToU32(m_task_count), g)[2]
        b == assigned_base(m_start_count, ToU32(m_task_count))[2]
    IN  /\ pc[t] = "get"
        /\ m_start_count' = fetch_add(m_start_count, g)
        /\ count' = [count EXCEPT ![t] = c]
        /\ ret' = [ret EXCEPT ![t] = b]
        /\ pc' = [pc EXCEPT ![t] = IF c # 0 THEN "process" ELSE "wait"]
        /\ assigned' = Bump(assigned, Range(b, c))
        /\ huge_calls' = IF g = UINT_MAX THEN huge_calls + 1 ELSE huge_calls
        /\ UNCHANGED <<m_lock, m_init_done, m_term_done, m_done_count,
                       m_task_count, init_running, term_running, after_reset,
                       hist_init, hist_term, completed>>

\* The results of the last get_task_assignment call go out of scope when the
\* worker's loop body ends.
Forget(t) ==
    /\ ret' = [ret EXCEPT ![t] = 0]
    /\ count' = [count EXCEPT ![t] = 0]

\* ----------------------------------------------- complete_task_assignment
\* complete_task_assignment(count), the critical section: the caller passes
\* the count it was assigned, after processing those tasks.
complete_task_assignment(t) ==
    /\ pc[t] = "process"
    /\ m_lock = NoThread
    /\ m_done_count' = m_done_count + count[t]
    /\ completed' = Bump(completed, Range(ret[t], count[t]))
    /\ IF m_done_count + count[t] = m_task_count
       THEN pc' = [pc EXCEPT ![t] = "notify"]
       ELSE pc' = [pc EXCEPT ![t] = "get"]
    /\ Forget(t)
    /\ UNCHANGED <<m_lock, m_init_done, m_term_done, m_start_count, m_task_count,
                   init_running, term_running, after_reset, hist_init, hist_term,
                   assigned, huge_calls>>

\* complete_task_assignment(count), after lck.unlock(): m_complete.notify_all().
notify_all(t) ==
    /\ pc[t] = "notify"
    /\ pc' = [u \in Threads |->
                IF u = t THEN "get"
                ELSE IF pc[u] = "blocked" THEN "woken" ELSE pc[u]]
    /\ UNCHANGED <<mgr, locals, init_running, term_running, after_reset, hist_init,
                   hist_term, hist_task>>

\* ------------------------------------------------------------------- wait
\* Mutant of wait_pred: the predicate also asks for a stage with tasks.
wait_pred_nonempty == m_done_count = m_task_count /\ m_task_count # 0

\* The predicate of m_complete.wait().
wait_pred == m_done_count = m_task_count

\* wait(): take m_lock and test the predicate; return when it holds, else
\* release m_lock and block on m_complete (one atomic step of the wait).
wait_enter(t) ==
    /\ pc[t] = "wait"
    /\ m_lock = NoThread
    /\ IF wait_pred
       THEN pc' = [pc EXCEPT ![t] = "term"]
       ELSE pc' = [pc EXCEPT ![t] = "blocked"]
    /\ Forget(t)
    /\ UNCHANGED <<mgr, init_running, term_running, after_reset, hist_init,
                   hist_term, hist_task>>

\* wait(): a woken thread takes m_lock again and tests the predicate again.
wait_recheck(t) ==
    /\ pc[t] = "woken"
    /\ m_lock = NoThread
    /\ IF wait_pred
       THEN pc' = [pc EXCEPT ![t] = "term"]
       ELSE pc' = [pc EXCEPT ![t] = "blocked"]
    /\ UNCHANGED <<mgr, locals, init_running, term_running, after_reset, hist_init,
                   hist_term, hist_task>>

\* std::condition_variable::wait may wake without a notification.
spurious_wakeup(t) ==
    /\ pc[t] = "blocked"
    /\ pc' = [pc EXCEPT ![t] = "woken"]
    /\ UNCHANGED <<mgr, locals, init_running, term_running, after_reset, hist_init,
                   hist_term, hist_task>>

\* ------------------------------------------------------------------- term
\* term(term_func), up to the call of term_func.
term_enter(t) ==
    /\ pc[t] = "term"
    /\ m_lock = NoThread
    /\ term_entered' = TRUE
    /\ IF ~m_term_done
       THEN /\ m_lock' = t
            /\ pc' = [pc EXCEPT ![t] = "term_call"]
            /\ term_running' = term_running \cup {t}
            /\ term_runs' = term_runs + 1
            /\ term_by_first' = (term_by_first /\ ~term_entered)
       ELSE /\ pc' = [pc EXCEPT ![t] = "done"]
            /\ UNCHANGED <<m_lock, term_running, term_runs, term_by_first>>
    /\ UNCHANGED <<m_init_done, m_term_done, m_start_count, m_done_count,
                   m_task_count, locals, init_running, after_reset, hist_init,
                   hist_task>>

\* Mutant of term_return: m_term_done is not set.
term_return_noflag(t) ==
    /\ pc[t] = "term_call"
    /\ m_lock' = NoThread
    /\ pc' = [pc EXCEPT ![t] = "done"]
    /\ term_running' = term_running \ {t}
    /\ UNCHANGED <<m_init_done, m_term_done, m_start_count, m_done_count,
                   m_task_count, locals, init_running, after_reset, hist_init,
                   hist_term, hist_task>>

\* term(term_func), from the return of term_func: m_term_done = true; unlock.
term_return(t) ==
    /\ pc[t] = "term_call"
    /\ m_term_done' = TRUE
    /\ m_lock' = NoThread
    /\ pc' = [pc EXCEPT ![t] = "done"]
    /\ term_running' = term_running \ {t}
    /\ UNCHANGED <<m_init_done, m_start_count, m_done_count, m_task_count,
                   locals, init_running, after_reset, hist_init, hist_term, hist_task>>

\* ---------------------------------------------------------- specification
\* A worker's choice of granule; at most MaxHugeCalls calls of a batch pass
\* UINT_MAX, the others a granule in 1..MaxGranule.
GranuleAllowed(g) == g = UINT_MAX => huge_calls < MaxHugeCalls

\* The manager's initial state; the codec is not in use.
Init == ParallelManager /\ ise_unused /\ bsd_unused /\ phys_unused /\ call_unused /\ img_unused /\ mem_unused

WorkerStep(t) ==
    \/ init_enter(t)
    \/ \E v \in 0..MaxTasks : init_return(t, v)
    \/ \E n \in 0..MaxTasks : init_count(t, n)
    \/ \E g \in Granules : GranuleAllowed(g) /\ get_task_assignment(t, g)
    \/ complete_task_assignment(t)
    \/ notify_all(t)
    \/ wait_enter(t)
    \/ wait_recheck(t)
    \/ term_enter(t)
    \/ term_return(t)

Next ==
    \/ \E t \in Threads : WorkerStep(t) /\ UNCHANGED <<ise_vars, bsd_vars, phys_vars, call_vars, img_vars, mem_vars>>
    \/ \E t \in Threads : spurious_wakeup(t) /\ UNCHANGED <<ise_vars, bsd_vars, phys_vars, call_vars, img_vars, mem_vars>>
    \/ reset /\ UNCHANGED <<ise_vars, bsd_vars, phys_vars, call_vars, img_vars, mem_vars>>

Spec == Init /\ [][Next]_vars

\* Fair scheduling of the workers; a spurious wake-up is never owed.
FairSpec ==
    Spec /\ \A t \in Threads : WF_vars(WorkerStep(t) /\ UNCHANGED <<ise_vars, bsd_vars, phys_vars, call_vars, img_vars, mem_vars>>)

\* ----------------------------------------------------------------- claims
PastInit(t) == pc[t] \notin {"init", "init_call"}

PastLoop(t) == pc[t] \in {"wait", "blocked", "woken", "term", "term_call", "done"}

PastTerm(t) == pc[t] = "done"

\* C1: within one batch the initialization is performed once whatever the
\* interleaving of the init() calls: never twice, and exactly once as soon as
\* one init() call has returned; it is performed by the first thread to enter
\* init()'s critical section, and from then on m_task_count is the value it
\* supplied (the value the init_func callable returned).
C1_InitOnce ==
    /\ init_runs <= 1
    /\ (\E t \in Threads : PastInit(t)) => init_runs = 1
    /\ init_by_first
    /\ m_init_done => m_task_count = init_ret

C1_Witness ==
    /\ \A t \in Threads : PastTerm(t)
    /\ init_runs = 1
    /\ init_by_first
    /\ init_ret = 2
    /\ m_task_count = 2

\* C2: init happens-before any process: a worker holds a non-empty assignment
\* only when the initialization has finished, that is no initializer is
\* running, m_init_done is set and m_task_count is the initializer's value.
C2_InitBeforeProcess ==
    \A t \in Threads :
        count[t] > 0 =>
            /\ init_running = {}
            /\ m_init_done
            /\ m_task_count = init_ret
            /\ count[t] <= init_ret

C2_Witness ==
    /\ pc[1] = "process"
    /\ count[1] = 2
    /\ pc[2] = "init"
    /\ init_runs = 1

\* C3: every task is assigned exactly once: no task index is handed out twice,
\* and once every worker has received count == 0 the indices handed out are
\* exactly those of [0, task_count).
C3_AssignedExactlyOnce ==
    /\ \A i \in TaskIds : assigned[i] <= 1
    /\ (\A t \in Threads : PastLoop(t)) =>
            \A i \in TaskIds : assigned[i] = IF i < m_task_count THEN 1 ELSE 0

\* C4: a wait() call returns only in a step taken where m_done_count equals
\* m_task_count, no other worker holds an assignment it has not flagged
\* complete, and every task of the stage has been flagged complete.
C4_WaitReturnsWhenAllDone ==
    [][\A t \in Threads :
          (pc[t] \in {"wait", "woken"} /\ pc'[t] = "term") =>
              /\ m_done_count = m_task_count
              /\ \A u \in Threads : pc[u] # "process"
              /\ \A i \in TaskIds : i < m_task_count => completed[i] >= 1]_vars

\* C5: wait happens-before any term: a term callable runs only in a state
\* where every task of [0, task_count) has been assigned and flagged complete.
C5_TermAfterAllComplete ==
    term_running # {} =>
        \A i \in TaskIds :
            i < m_task_count => (assigned[i] >= 1 /\ completed[i] >= 1)

\* C6: the stage runs to completion: under fair scheduling every worker that
\* starts a batch eventually returns from term().
C6_RunsToCompletion ==
    \A t \in Threads : (pc[t] = "init") ~> (pc[t] = "done")

\* C7: within one batch the term callable is executed at most once, by the
\* first thread to enter term()'s critical section; once a term() call has
\* returned it has been executed exactly once and m_term_done is set, so
\* every later call returns without running it.
C7_TermOnce ==
    /\ term_runs <= 1
    /\ term_by_first
    /\ (\E t \in Threads : PastTerm(t)) => (term_runs = 1 /\ m_term_done)

C7_Witness ==
    /\ \A t \in Threads : PastTerm(t)
    /\ term_runs = 1
    /\ term_by_first
    /\ m_term_done

\* C8: get_task_assignment(granule, count) assigns up to granule tasks: with
\* base the start counter before the call, it stores min(task_count - base,
\* granule) in count and returns base when base < task_count, and stores 0
\* and returns 0 otherwise; so count <= granule and base + count <= task_count.
C8_AssignmentValue ==
    [][\A t \in Threads : \A g \in Granules :
          (/\ pc[t] = "get"
           /\ pc'[t] # "get"
           /\ m_start_count' = Add32(m_start_count, g)) =>
              LET b == m_start_count[2]
                  below == m_start_count[1] = 0 /\ b < m_task_count
                  fits == g[1] = 0 /\ g[2] < m_task_count - b
              IN  IF below
                  THEN /\ count'[t] = IF fits THEN g[2] ELSE m_task_count - b
                       /\ ret'[t] = b
                       /\ g[1] = 0 => count'[t] <= g[2]
                       /\ b + count'[t] <= m_task_count
                  ELSE /\ count'[t] = 0
                       /\ ret'[t] = 0]_vars

C8_Witness ==
    /\ m_task_count = 3
    /\ pc[1] = "process"
    /\ ret[1] = 0
    /\ count[1] = 2
    /\ pc[2] = "process"
    /\ ret[2] = 2
    /\ count[2] = 1

\* C9: the other threads block in init() until the initialization is complete:
\* whenever a thread has returned from init(), no initializer callable is
\* running, m_init_done is set and m_task_count has its final value.
C9_InitBlocksOthers ==
    \A t \in Threads :
        PastInit(t) =>
            /\ init_running = {}
            /\ m_init_done
            /\ m_task_count = init_ret

C9_Witness ==
    /\ pc[2] = "get"
    /\ pc[1] = "get"
    /\ init_runs = 1
    /\ m_init_done
    /\ m_task_count = 3

\* C10: reset() from single-threaded code leaves the manager as the
\* constructor does (no flag set, the three counters 0), so that the batch
\* after a reset() behaves like a first one: the initialization is performed
\* again, the first assignment starts at index 0, and the term callable runs
\* again.
C10_ResetStartsFreshBatch ==
    /\ (\A t \in Threads : pc[t] = "init") =>
            /\ ~m_init_done
            /\ ~m_term_done
            /\ m_start_count = ToU32(0)
            /\ m_done_count = 0
            /\ m_task_count = 0
    /\ after_reset =>
            /\ (\E t \in Threads : PastInit(t)) => init_runs = 1
            /\ ((\E t \in Threads : pc[t] \notin {"init", "init_call", "get"})
                    /\ m_task_count > 0) => assigned[0] >= 1
            /\ (\E t \in Threads : PastTerm(t)) => term_runs = 1

C10_Witness ==
    /\ after_reset
    /\ \A t \in Threads : PastTerm(t)
    /\ init_runs = 1
    /\ term_runs = 1
    /\ m_task_count = 3
    /\ \A i \in TaskIds : assigned[i] = 1

(***************************************************************************)
(* Specification CallSpec: the workers of the usage model, with the calls  *)
(* the usage model does not show: a wait() before init(), a granule of 0,  *)
(* and complete_task_assignment() taken step by step (the lock, the read   *)
(* of m_done_count, the write).                                            *)
(***************************************************************************)

\* The granules a caller passes here: 0 and the small ones.  The largest
\* unsigned int, which wraps m_start_count, is a granule of Spec.
AnyGranules == {ToU32(g) : g \in 0..MaxGranule}

\* Mutant of complete_lock: m_done_count is read without taking m_lock.
complete_lock_nolock(t) ==
    /\ pc[t] = "process"
    /\ done_read' = [done_read EXCEPT ![t] = m_done_count]
    /\ pc' = [pc EXCEPT ![t] = "completing"]
    /\ UNCHANGED <<mgr, locals, init_running, term_running, after_reset,
                   hist_init, hist_term, hist_task, zero_granule>>

\* complete_task_assignment(count): take m_lock, read m_done_count for the +=.
complete_lock(t) ==
    /\ pc[t] = "process"
    /\ m_lock = NoThread
    /\ m_lock' = t
    /\ done_read' = [done_read EXCEPT ![t] = m_done_count]
    /\ pc' = [pc EXCEPT ![t] = "completing"]
    /\ UNCHANGED <<m_init_done, m_term_done, m_start_count, m_done_count,
                   m_task_count, locals, init_running, term_running,
                   after_reset, hist_init, hist_term, hist_task, zero_granule>>

\* complete_task_assignment(count): write m_done_count, compare it with
\* m_task_count, release m_lock (before the notification, or on return).
complete_store(t) ==
    /\ pc[t] = "completing"
    /\ m_done_count' = done_read[t] + count[t]
    /\ completed' = Bump(completed, Range(ret[t], count[t]))
    /\ m_lock' = NoThread
    /\ IF done_read[t] + count[t] = m_task_count
       THEN pc' = [pc EXCEPT ![t] = "notify"]
       ELSE pc' = [pc EXCEPT ![t] = "get"]
    /\ Forget(t)
    /\ done_read' = [done_read EXCEPT ![t] = 0]
    /\ UNCHANGED <<m_init_done, m_term_done, m_start_count, m_task_count,
                   init_running, term_running, after_reset, hist_init,
                   hist_term, assigned, huge_calls, zero_granule>>

\* wait() called by a thread that has not called init(), on a manager that
\* has not been initialized: it returns or blocks on the predicate.
wait_early(t) ==
    /\ pc[t] = "init"
    /\ ~m_init_done
    /\ m_lock = NoThread
    /\ IF wait_pred
       THEN pc' = [pc EXCEPT ![t] = "waited"]
       ELSE pc' = [pc EXCEPT ![t] = "blocked"]
    /\ UNCHANGED <<mgr, locals, init_running, term_running, after_reset,
                   hist_init, hist_term, hist_task, call_vars>>

\* The thread whose early wait() returned goes on to init().
wait_early_return(t) ==
    /\ pc[t] = "waited"
    /\ pc' = [pc EXCEPT ![t] = "init"]
    /\ UNCHANGED <<mgr, locals, init_running, term_running, after_reset,
                   hist_init, hist_term, hist_task, call_vars>>

\* get_task_assignment(granule, count) with any granule.
get_task_assignment_any(t, g) ==
    /\ get_task_assignment(t, g)
    /\ zero_granule' = [zero_granule EXCEPT ![t] = (g = ToU32(0))]
    /\ UNCHANGED done_read

\* wait() at the end of the worker's loop.
wait_after_loop(t) ==
    /\ wait_enter(t)
    /\ zero_granule' = [zero_granule EXCEPT ![t] = FALSE]
    /\ UNCHANGED done_read

CallInit ==
    /\ ParallelManager
    /\ call_unused /\ img_unused /\ mem_unused
    /\ ise_unused
    /\ bsd_unused
    /\ phys_unused

CallNext ==
    \/ \E t \in Threads :
           init_enter(t) /\ UNCHANGED <<ise_vars, bsd_vars, phys_vars, call_vars, img_vars, mem_vars>>
    \/ \E t \in Threads : \E v \in 0..MaxTasks :
           init_return(t, v) /\ UNCHANGED <<ise_vars, bsd_vars, phys_vars, call_vars, img_vars, mem_vars>>
    \/ \E t \in Threads : \E n \in 0..MaxTasks :
           init_count(t, n) /\ UNCHANGED <<ise_vars, bsd_vars, phys_vars, call_vars, img_vars, mem_vars>>
    \/ \E t \in Threads :
           wait_early(t) /\ UNCHANGED <<ise_vars, bsd_vars, phys_vars, img_vars, mem_vars>>
    \/ \E t \in Threads :
           wait_early_return(t) /\ UNCHANGED <<ise_vars, bsd_vars, phys_vars, img_vars, mem_vars>>
    \/ \E t \in Threads : \E g \in AnyGranules :
           /\ GranuleAllowed(g)
           /\ get_task_assignment_any(t, g)
           /\ UNCHANGED <<ise_vars, bsd_vars, phys_vars, img_vars, mem_vars>>
    \/ \E t \in Threads :
           complete_lock(t) /\ UNCHANGED <<ise_vars, bsd_vars, phys_vars, img_vars, mem_vars>>
    \/ \E t \in Threads :
           complete_store(t) /\ UNCHANGED <<ise_vars, bsd_vars, phys_vars, img_vars, mem_vars>>
    \/ \E t \in Threads :
           notify_all(t) /\ UNCHANGED <<ise_vars, bsd_vars, phys_vars, call_vars, img_vars, mem_vars>>
    \/ \E t \in Threads :
           wait_after_loop(t) /\ UNCHANGED <<ise_vars, bsd_vars, phys_vars, img_vars, mem_vars>>
    \/ \E t \in Threads :
           wait_recheck(t) /\ UNCHANGED <<ise_vars, bsd_vars, phys_vars, call_vars, img_vars, mem_vars>>
    \/ \E t \in Threads :
           spurious_wakeup(t) /\ UNCHANGED <<ise_vars, bsd_vars, phys_vars, call_vars, img_vars, mem_vars>>
    \/ \E t \in Threads :
           term_enter(t) /\ UNCHANGED <<ise_vars, bsd_vars, phys_vars, call_vars, img_vars, mem_vars>>
    \/ \E t \in Threads :
           term_return(t) /\ UNCHANGED <<ise_vars, bsd_vars, phys_vars, call_vars, img_vars, mem_vars>>
    \/ reset /\ UNCHANGED <<ise_vars, bsd_vars, phys_vars, call_vars, img_vars, mem_vars>>

CallSpec == CallInit /\ [][CallNext]_vars

\* The sum of a per-task counter over the task indices up to n.
RECURSIVE TotalUpTo(_, _)
TotalUpTo(f, n) == IF n < 0 THEN 0 ELSE f[n] + TotalUpTo(f, n - 1)

Total(f) == TotalUpTo(f, MaxTasks - 1)

\* A step in which thread t evaluates wait()'s predicate.
EvaluatesPredicate(t) ==
    /\ pc[t] \in {"init", "wait", "woken"}
    /\ pc'[t] \in {"waited", "blocked", "term"}

\* C21: no completion is lost: m_done_count is the sum of the counts of the
\* complete_task_assignment() calls that have written it, a thread between
\* its read and its write of m_done_count holds m_lock, and no wait()
\* evaluates its predicate while a thread is between the two.
C21_NoLostCompletion ==
    /\ [](m_done_count = Total(completed))
    /\ [](\A t \in Threads : pc[t] = "completing" => m_lock = t)
    /\ [][\A t \in Threads :
             EvaluatesPredicate(t) => \A u \in Threads : pc[u] # "completing"]_vars

\* One thread between its read and its write of m_done_count, after another
\* call has been counted, while the other thread is blocked in wait().
C21_Witness ==
    /\ pc[1] = "completing"
    /\ done_read[1] = 1
    /\ count[1] = 2
    /\ pc[2] = "blocked"

\* C22: complete_task_assignment() goes on to notify_all() if and only if it
\* has brought m_done_count to m_task_count, and every thread blocked in
\* wait() when the notification is issued returns from wait().
C22_NotifyReleasesWaiters ==
    /\ [][\A t \in Threads :
             (pc[t] = "process" /\ pc'[t] # "process") =>
                 (pc'[t] = "notify" <=> m_done_count' = m_task_count)]_vars
    /\ \A u \in Threads :
           ((\E t \in Threads : pc[t] = "notify") /\ pc[u] = "blocked")
               ~> (pc[u] \in {"term", "term_call", "done"})

\* C23: exhaustion is permanent: once a get_task_assignment() call of a
\* batch has returned count == 0, no later call of the batch hands out a
\* task; and within a batch the start counter, once it has reached
\* m_task_count, never falls below it again.
C23_ExhaustionPermanent ==
    /\ [][(\E t \in Threads : PastLoop(t)) =>
             \A u \in Threads : ~(pc[u] = "get" /\ pc'[u] = "process")]_vars
    /\ [][(/\ m_init_done
           /\ m_init_done'
           /\ ~Lt32(m_start_count, ToU32(m_task_count))) =>
              ~Lt32(m_start_count', ToU32(m_task_count'))]_vars

\* A step of reset(): the only step that leaves every worker before init().
ResetStep == \A t \in Threads : pc'[t] = "init"

\* C24: in every state of a batch m_done_count <= the number of tasks
\* assigned so far <= m_task_count, and neither m_done_count nor the
\* number of assigned tasks decreases before the next reset().
C24_CountersOrdered ==
    /\ [](m_done_count <= Total(assigned))
    /\ [](m_init_done => Total(assigned) <= m_task_count)
    /\ [][~ResetStep =>
             /\ m_done_count' >= m_done_count
             /\ Total(assigned') >= Total(assigned)]_vars

\* C25: empty stage: when the initializer reports 0 tasks, no
\* get_task_assignment() hands out a task (so no thread has anything to
\* complete or to notify), no wait() blocks, and the term callable still
\* runs exactly once.
C25_EmptyStage ==
    (m_init_done /\ init_ret = 0) =>
        /\ \A t \in Threads :
               /\ pc[t] \notin {"process", "notify", "blocked", "woken"}
               /\ count[t] = 0
        /\ Total(assigned) = 0
        /\ m_done_count = 0
        /\ term_runs <= 1
        /\ (\E t \in Threads : PastTerm(t)) => term_runs = 1

\* An empty stage run to its end by all workers, one of which has passed
\* the largest granule.
C25_Witness ==
    /\ m_init_done
    /\ init_ret = 0
    /\ huge_calls = 1
    /\ \A t \in Threads : PastTerm(t)
    /\ term_runs = 1

\* C26: an init() call made when m_init_done is set returns without running
\* its callable and without changing m_task_count, whatever count it
\* carries; and no step of an init() call changes m_start_count,
\* m_done_count or m_term_done.
C26_FirstInitWins ==
    [][\A t \in Threads :
          /\ (pc[t] = "init" /\ pc'[t] # "init" /\ m_init_done) =>
                 /\ pc'[t] = "get"
                 /\ m_task_count' = m_task_count
                 /\ init_runs' = init_runs
                 /\ init_running' = init_running
          /\ (pc[t] \in {"init", "init_call"} /\ pc'[t] # pc[t]) =>
                 /\ m_start_count' = m_start_count
                 /\ m_done_count' = m_done_count
                 /\ m_term_done' = m_term_done]_vars

\* Both workers have returned from init() on a stage of two tasks; one
\* initialization was performed.
C26_Witness ==
    /\ \A t \in Threads : pc[t] = "process"
    /\ init_runs = 1
    /\ m_task_count = 2

\* C27: on a manager that is not initialized (constructed or reset, no
\* init() begun) m_done_count and m_task_count are both 0, and no thread
\* is blocked in wait(): a wait() issued then has returned at once.
C27_WaitBeforeInit ==
    (~m_init_done /\ init_running = {}) =>
        /\ m_done_count = 0
        /\ m_task_count = 0
        /\ \A t \in Threads : pc[t] \notin {"blocked", "woken"}

\* After a reset, a wait() has returned to a thread that has not called
\* init(), and the stage that was initialized since has all its tasks
\* unfinished.
C27_Witness ==
    /\ after_reset
    /\ pc[1] = "waited"
    /\ m_init_done
    /\ m_task_count = 3
    /\ m_done_count = 0

\* C28: get_task_assignment() with granule 0 returns count 0 and leaves the
\* start counter and the set of assigned tasks as they were, also while
\* unassigned tasks remain; the caller's loop ends and it goes on to wait().
C28_GranuleZero ==
    [][\A t \in Threads :
          (pc[t] = "get" /\ pc'[t] # "get" /\ zero_granule'[t]) =>
              /\ count'[t] = 0
              /\ m_start_count' = m_start_count
              /\ assigned' = assigned
              /\ pc'[t] = "wait"]_vars

\* A worker has left its loop on granule 0 with all three tasks unassigned;
\* the other worker then takes two of them.
C28_Witness ==
    /\ zero_granule[1]
    /\ pc[1] = "wait"
    /\ m_task_count = 3
    /\ pc[2] = "process"
    /\ ret[2] = 0
    /\ count[2] = 2
    /\ Total(assigned) = 2

\* ============================================================ quant_method
\* enum quant_method: the identifiers of the 21 quantization levels.
QUANT_2 == 0
QUANT_3 == 1
QUANT_4 == 2
QUANT_5 == 3
QUANT_6 == 4
QUANT_8 == 5
QUANT_10 == 6
QUANT_12 == 7
QUANT_16 == 8
QUANT_20 == 9
QUANT_24 == 10
QUANT_32 == 11
QUANT_40 == 12
QUANT_48 == 13
QUANT_64 == 14
QUANT_80 == 15
QUANT_96 == 16
QUANT_128 == 17
QUANT_160 == 18
QUANT_192 == 19
QUANT_256 == 20

\* Mutant of get_quant_level: the cases of QUANT_40 and QUANT_48 exchanged.
get_quant_level_swapped(method) ==
    CASE method = QUANT_2 -> 2     [] method = QUANT_3 -> 3
      [] method = QUANT_4 -> 4     [] method = QUANT_5 -> 5
      [] method = QUANT_6 -> 6     [] method = QUANT_8 -> 8
      [] method = QUANT_10 -> 10   [] method = QUANT_12 -> 12
      [] method = QUANT_16 -> 16   [] method = QUANT_20 -> 20
      [] method = QUANT_24 -> 24   [] method = QUANT_32 -> 32
      [] method = QUANT_40 -> 48   [] method = QUANT_48 -> 40
      [] method = QUANT_64 -> 64   [] method = QUANT_80 -> 80
      [] method = QUANT_96 -> 96   [] method = QUANT_128 -> 128
      [] method = QUANT_160 -> 160 [] method = QUANT_192 -> 192
      [] method = QUANT_256 -> 256
      [] OTHER -> 0

\* Mutant of get_quant_level: the case of QUANT_6 returns the level of QUANT_5.
get_quant_level_shared(method) ==
    CASE method = QUANT_2 -> 2     [] method = QUANT_3 -> 3
      [] method = QUANT_4 -> 4     [] method = QUANT_5 -> 5
      [] method = QUANT_6 -> 5     [] method = QUANT_8 -> 8
      [] method = QUANT_10 -> 10   [] method = QUANT_12 -> 12
      [] method = QUANT_16 -> 16   [] method = QUANT_20 -> 20
      [] method = QUANT_24 -> 24   [] method = QUANT_32 -> 32
      [] method = QUANT_40 -> 40   [] method = QUANT_48 -> 48
      [] method = QUANT_64 -> 64   [] method = QUANT_80 -> 80
      [] method = QUANT_96 -> 96   [] method = QUANT_128 -> 128
      [] method = QUANT_160 -> 160 [] method = QUANT_192 -> 192
      [] method = QUANT_256 -> 256
      [] OTHER -> 0

\* Mutant of get_quant_level: the case of QUANT_32 returns the level of
\* QUANT_40.
get_quant_level_over(method) ==
    CASE method = QUANT_2 -> 2     [] method = QUANT_3 -> 3
      [] method = QUANT_4 -> 4     [] method = QUANT_5 -> 5
      [] method = QUANT_6 -> 6     [] method = QUANT_8 -> 8
      [] method = QUANT_10 -> 10   [] method = QUANT_12 -> 12
      [] method = QUANT_16 -> 16   [] method = QUANT_20 -> 20
      [] method = QUANT_24 -> 24   [] method = QUANT_32 -> 40
      [] method = QUANT_40 -> 40   [] method = QUANT_48 -> 48
      [] method = QUANT_64 -> 64   [] method = QUANT_80 -> 80
      [] method = QUANT_96 -> 96   [] method = QUANT_128 -> 128
      [] method = QUANT_160 -> 160 [] method = QUANT_192 -> 192
      [] method = QUANT_256 -> 256
      [] OTHER -> 0

\* get_quant_level(): the switch over the enum; any other value falls out of
\* the switch to the final return 0.
get_quant_level(method) ==
    CASE method = QUANT_2 -> 2     [] method = QUANT_3 -> 3
      [] method = QUANT_4 -> 4     [] method = QUANT_5 -> 5
      [] method = QUANT_6 -> 6     [] method = QUANT_8 -> 8
      [] method = QUANT_10 -> 10   [] method = QUANT_12 -> 12
      [] method = QUANT_16 -> 16   [] method = QUANT_20 -> 20
      [] method = QUANT_24 -> 24   [] method = QUANT_32 -> 32
      [] method = QUANT_40 -> 40   [] method = QUANT_48 -> 48
      [] method = QUANT_64 -> 64   [] method = QUANT_80 -> 80
      [] method = QUANT_96 -> 96   [] method = QUANT_128 -> 128
      [] method = QUANT_160 -> 160 [] method = QUANT_192 -> 192
      [] method = QUANT_256 -> 256
      [] OTHER -> 0

\* The values of the enum, and values of its underlying type outside it.
QuantMethods == QUANT_2..QUANT_256
BadMethods == {QUANT_2 - 1} \cup ((QUANT_256 + 1)..(QUANT_256 + MaxBadMethods))

\* ================================================== integer sequence codec
\* Bit i of v, and the n bit field of v that starts at bit lo.
Bit(v, i) == (v \div (2 ^ i)) % 2
Field(v, lo, n) == (v \div (2 ^ lo)) % (2 ^ n)

RECURSIVE Log2(_)
Log2(n) == IF n <= 1 THEN 0 ELSE 1 + Log2(n \div 2)

\* An alphabet of A characters is 2^k, 3 * 2^k or 5 * 2^k: a character is k
\* base bits and, for radix 3 or 5, one trit or one quint.
radix(A) == IF A % 3 = 0 THEN 3 ELSE IF A % 5 = 0 THEN 5 ELSE 1
base_bits(A) == Log2(A \div radix(A))

\* Trits are packed five to an 8 bit block, quints three to a 7 bit block.
block_chars(r) == IF r = 3 THEN 5 ELSE IF r = 5 THEN 3 ELSE 1
block_bits(r) == IF r = 3 THEN 8 ELSE IF r = 5 THEN 7 ELSE 0

\* The packed block is stored in pieces, one after each character's base
\* bits: piece_bits are their widths, piece_shift their positions in the block.
piece_bits(r) == IF r = 3 THEN <<2, 2, 1, 2, 1>> ELSE IF r = 5 THEN <<3, 2, 2>> ELSE <<0>>
piece_shift(r) == IF r = 3 THEN <<0, 2, 4, 5, 7>> ELSE IF r = 5 THEN <<0, 3, 5>> ELSE <<0>>

\* The five trits t0..t4 that the 8 bit block T packs.
trits_of_integer(T) ==
    LET top == Field(T, 2, 3) = 7
        C == IF top THEN Field(T, 5, 3) * 4 + Field(T, 0, 2) ELSE Field(T, 0, 5)
        t4 == IF top \/ Field(T, 5, 2) = 3 THEN 2 ELSE Bit(T, 7)
        t3 == IF top THEN 2
              ELSE IF Field(T, 5, 2) = 3 THEN Bit(T, 7) ELSE Field(T, 5, 2)
        lo == Field(C, 0, 2) = 3
        mid == Field(C, 2, 2) = 3
        t2 == IF lo \/ mid THEN 2 ELSE Bit(C, 4)
        t1 == IF lo THEN Bit(C, 4) ELSE IF mid THEN 2 ELSE Field(C, 2, 2)
        t0 == IF lo THEN 2 * Bit(C, 3) + Bit(C, 2) * (1 - Bit(C, 3))
              ELSE IF mid THEN Field(C, 0, 2)
              ELSE 2 * Bit(C, 1) + Bit(C, 0) * (1 - Bit(C, 1))
    IN  <<t0, t1, t2, t3, t4>>

\* The three quints q0..q2 that the 7 bit block Q packs.
quints_of_integer(Q) ==
    IF Field(Q, 1, 2) = 3 /\ Field(Q, 5, 2) = 0
    THEN <<4, 4, 4 * Bit(Q, 0) + 2 * (Bit(Q, 4) * (1 - Bit(Q, 0)))
                 + Bit(Q, 3) * (1 - Bit(Q, 0))>>
    ELSE LET top == Field(Q, 1, 2) = 3
             q2 == IF top THEN 4 ELSE Field(Q, 5, 2)
             C == IF top
                  THEN Field(Q, 3, 2) * 8 + (3 - Field(Q, 5, 2)) * 2 + Bit(Q, 0)
                  ELSE Field(Q, 0, 5)
         IN  IF Field(C, 0, 3) = 5
             THEN <<Field(C, 3, 2), 4, q2>>
             ELSE <<Field(C, 0, 3), Field(C, 3, 2), q2>>

unpack_block(r, P) ==
    IF r = 3 THEN trits_of_integer(P)
    ELSE IF r = 5 THEN quints_of_integer(P) ELSE <<0>>

\* A tuple of digits as a table index: digit j has weight r^(j-1).
RECURSIVE digits_index(_, _)
digits_index(r, digits) ==
    IF digits = <<>> THEN 0 ELSE digits[1] + r * digits_index(r, Tail(digits))

\* The packing tables: for each tuple of trits or quints, the lowest block
\* value that unpacks to it.
integer_of_trits ==
    [n \in 0..242 |->
        CHOOSE T \in 0..255 :
            /\ digits_index(3, trits_of_integer(T)) = n
            /\ \A U \in 0..(T - 1) : digits_index(3, trits_of_integer(U)) # n]

integer_of_quints ==
    [n \in 0..124 |->
        CHOOSE Q \in 0..127 :
            /\ digits_index(5, quints_of_integer(Q)) = n
            /\ \A U \in 0..(Q - 1) : digits_index(5, quints_of_integer(U)) # n]

pack_block(r, digits) ==
    IF r = 3 THEN integer_of_trits[digits_index(r, digits)]
    ELSE IF r = 5 THEN integer_of_quints[digits_index(r, digits)] ELSE 0

\* The n low bits of v as a sequence, least significant first, and back.
BitsOf(v, n) == [i \in 1..n |-> Bit(v, i - 1)]

RECURSIVE ValueOf(_)
ValueOf(bits) ==
    IF bits = <<>> THEN 0 ELSE bits[1] + 2 * ValueOf(Tail(bits))

\* Position of character i (from 1) of a sequence: the bit where it starts,
\* counted from the start of the sequence.
char_start(A, i) ==
    LET r == radix(A)
        k == base_bits(A)
        b == (i - 1) \div block_chars(r)
        j == (i - 1) % block_chars(r)
    IN  b * (block_chars(r) * k + block_bits(r)) + j * k + piece_shift(r)[j + 1]

\* The trits or quints of the block that holds character i; the characters a
\* final partial block lacks count as 0.
block_digits(A, chars, i) ==
    LET r == radix(A)
        b == (i - 1) \div block_chars(r)
    IN  [j \in 1..block_chars(r) |->
            LET c == b * block_chars(r) + j
            IN  IF c <= Len(chars) THEN chars[c] \div (2 ^ base_bits(A)) ELSE 0]

\* The bits encode_ise emits for character i: its base bits, then its piece
\* of the packed block.
char_bits(A, chars, i) ==
    LET r == radix(A)
        k == base_bits(A)
        j == (i - 1) % block_chars(r)
        P == pack_block(r, block_digits(A, chars, i))
    IN  BitsOf(chars[i] % (2 ^ k), k)
        \o BitsOf(Field(P, piece_shift(r)[j + 1], piece_bits(r)[j + 1]),
                  piece_bits(r)[j + 1])

RECURSIVE ise_stream(_, _, _)
ise_stream(A, chars, i) ==
    IF i > Len(chars) THEN <<>>
    ELSE char_bits(A, chars, i) \o ise_stream(A, chars, i + 1)

\* Mutant of write_bits: the bits are or-ed into the buffer.
write_bits_or(data, offset, bits) ==
    [j \in 1..Len(data) |->
        LET nb(b) == LET p == 8 * (j - 1) + b
                     IN  IF p >= offset /\ p < offset + Len(bits)
                         THEN IF bits[p - offset + 1] = 1 THEN 1 ELSE Bit(data[j], b)
                         ELSE Bit(data[j], b)
        IN  nb(0) + 2 * nb(1) + 4 * nb(2) + 8 * nb(3)
            + 16 * nb(4) + 32 * nb(5) + 64 * nb(6) + 128 * nb(7)]

\* The buffer with bits stored from bit position offset on; bit p of the
\* buffer is bit p % 8 of byte p / 8.
write_bits(data, offset, bits) ==
    [j \in 1..Len(data) |->
        LET nb(b) == LET p == 8 * (j - 1) + b
                     IN  IF p >= offset /\ p < offset + Len(bits)
                         THEN bits[p - offset + 1]
                         ELSE Bit(data[j], b)
        IN  nb(0) + 2 * nb(1) + 4 * nb(2) + 8 * nb(3)
            + 16 * nb(4) + 32 * nb(5) + 64 * nb(6) + 128 * nb(7)]

read_bit(data, p) == Bit(data[(p \div 8) + 1], p % 8)

RECURSIVE read_bits(_, _, _)
read_bits(data, p, n) ==
    IF n = 0 THEN 0 ELSE read_bit(data, p) + 2 * read_bits(data, p + 1, n - 1)

\* encode_ise(): the buffer after the call.
encode_ise(method, count_, chars, data, offset) ==
    write_bits(data, offset, ise_stream(get_quant_level(method), chars, 1))

\* The packed block b (from 0) of a stored sequence: its pieces, read from
\* the characters j..block_chars of the block that the sequence has.
RECURSIVE read_block(_, _, _, _, _, _)
read_block(A, count_, data, offset, b, j) ==
    LET r == radix(A)
        i == b * block_chars(r) + j
    IN  IF j > block_chars(r) \/ i > count_ THEN 0
        ELSE read_bits(data, offset + char_start(A, i) + base_bits(A),
                       piece_bits(r)[j]) * (2 ^ piece_shift(r)[j])
             + read_block(A, count_, data, offset, b, j + 1)

\* decode_ise(): the characters read back.
decode_ise(method, count_, data, offset) ==
    LET A == get_quant_level(method)
        r == radix(A)
        k == base_bits(A)
    IN  [i \in 1..count_ |->
            unpack_block(r, read_block(A, count_, data, offset,
                                       (i - 1) \div block_chars(r), 1))
                [((i - 1) % block_chars(r)) + 1] * (2 ^ k)
            + read_bits(data, offset + char_start(A, i), k)]

\* The bit count an invalid quant level yields: more than a block can hold.
UNENCODABLE == 1024

\* Mutant of get_ise_sequence_bitcount: no check of the quant level.
get_ise_sequence_bitcount_unchecked(count_, method) ==
    LET A == get_quant_level(method)
        r == radix(A)
    IN  (count_ * (block_chars(r) * base_bits(A) + block_bits(r))
         + block_chars(r) - 1) \div block_chars(r)

\* get_ise_sequence_bitcount(): ceil(count * bits per character), a character
\* being base_bits plus block_bits / block_chars bits.
get_ise_sequence_bitcount(count_, method) ==
    IF method \notin QuantMethods THEN UNENCODABLE
    ELSE LET A == get_quant_level(method)
             r == radix(A)
         IN  (count_ * (block_chars(r) * base_bits(A) + block_bits(r))
              + block_chars(r) - 1) \div block_chars(r)

\* ------------------------------------------------ the codec's specification
\* The inputs: every character of the alphabets 2, 3 and 5, and the lowest,
\* the middle and the highest character of the larger alphabets.
CharSamples(A) ==
    IF base_bits(A) = 0 THEN 0..(A - 1) ELSE {0, A \div 2, A - 1}

BitOffsets == {0, MaxBitOffset}

\* A buffer that holds the longest sequence at the highest offset.
BufBytes == (MaxBitOffset + MaxChars * 8 + 7) \div 8

\* The buffer before the call: cleared when the sequence is stored from its
\* start, all ones when it is stored from inside the first byte.
Buffer(offset) == [j \in 1..BufBytes |-> IF offset = 0 THEN 0 ELSE 255]

IseInit ==
    /\ ParallelManager
    /\ call_unused /\ img_unused /\ mem_unused
    /\ bsd_unused
    /\ phys_unused
    /\ quant_level \in QuantMethods \cup BadMethods
    /\ character_count \in 0..MaxChars
    /\ input_data \in
         IF quant_level \in QuantMethods
         THEN [1..character_count -> CharSamples(get_quant_level(quant_level))]
         ELSE {<<>>}
    /\ bit_offset \in BitOffsets
    /\ output_data = Buffer(bit_offset)
    /\ decoded = <<>>
    /\ level = 0
    /\ bitcount = 0
    /\ bits_written = 0
    /\ ise_pc = "start"

get_quant_level_call ==
    /\ ise_pc = "start"
    /\ level' = get_quant_level(quant_level)
    /\ ise_pc' = "level"
    /\ UNCHANGED <<quant_level, character_count, input_data, bit_offset,
                   output_data, decoded, bitcount, bits_written>>

get_ise_sequence_bitcount_call ==
    /\ ise_pc = "level"
    /\ bitcount' = get_ise_sequence_bitcount(character_count, quant_level)
    /\ ise_pc' = "counted"
    /\ UNCHANGED <<quant_level, character_count, input_data, bit_offset,
                   output_data, decoded, level, bits_written>>

\* encode_ise is called with a level of the enum only.
encode_ise_call ==
    /\ ise_pc = "counted"
    /\ quant_level \in QuantMethods
    /\ output_data' = encode_ise(quant_level, character_count, input_data,
                                 output_data, bit_offset)
    /\ bits_written' = Len(ise_stream(get_quant_level(quant_level), input_data, 1))
    /\ ise_pc' = "encoded"
    /\ UNCHANGED <<quant_level, character_count, input_data, bit_offset,
                   decoded, level, bitcount>>

decode_ise_call ==
    /\ ise_pc = "encoded"
    /\ decoded' = decode_ise(quant_level, character_count, output_data, bit_offset)
    /\ ise_pc' = "decoded"
    /\ UNCHANGED <<quant_level, character_count, input_data, bit_offset,
                   output_data, level, bitcount, bits_written>>

IseNext ==
    \/ get_quant_level_call /\ UNCHANGED <<manager, bsd_vars, phys_vars, call_vars, img_vars, mem_vars>>
    \/ get_ise_sequence_bitcount_call /\ UNCHANGED <<manager, bsd_vars, phys_vars, call_vars, img_vars, mem_vars>>
    \/ encode_ise_call /\ UNCHANGED <<manager, bsd_vars, phys_vars, call_vars, img_vars, mem_vars>>
    \/ decode_ise_call /\ UNCHANGED <<manager, bsd_vars, phys_vars, call_vars, img_vars, mem_vars>>

IseSpec == IseInit /\ [][IseNext]_vars

\* ----------------------------------------------------------------- claims
\* C11: BISE round trip.  For every quant level and every sequence of N
\* characters in 0..level-1, decode_ise of what encode_ise wrote at the same
\* bit offset returns the original characters, and
\* get_ise_sequence_bitcount(N, level) equals the number of bits written.
C11_IseRoundTrip ==
    ise_pc = "decoded" =>
        /\ decoded = input_data
        /\ bitcount = bits_written

\* A full block of five trits followed by nothing, stored at a bit offset
\* inside a byte of a buffer that held ones, read back.
C11_Witness ==
    /\ ise_pc = "decoded"
    /\ quant_level = QUANT_12
    /\ character_count = MaxChars
    /\ input_data = [i \in 1..MaxChars |-> IF i % 2 = 1 THEN 11 ELSE 6]
    /\ bit_offset = MaxBitOffset
    /\ decoded = input_data
    /\ bits_written = bitcount
    /\ bitcount > 0

\* C12: for a quant level outside the 21 valid levels,
\* get_ise_sequence_bitcount returns at least 129 bits for every character
\* count; for a valid level it returns a bit count a block can be tested
\* against (a natural number).
C12_BadLevelUnencodable ==
    ise_pc \in {"counted", "encoded", "decoded"} =>
        /\ bitcount \in Nat
        /\ quant_level \notin QuantMethods => bitcount >= 129

C12_Witness ==
    /\ ise_pc = "counted"
    /\ quant_level = QUANT_256 + 1
    /\ character_count = MaxChars
    /\ bitcount >= 129

\* C19: get_quant_level maps the identifiers 0..20, in order, to the levels
\* 2, 3, 4, 5, 6, 8, 10, 12, 16, 20, 24, 32, 40, 48, 64, 80, 96, 128, 160,
\* 192, 256, and the mapping is strictly increasing.
C19_QuantLevels ==
    LET levels == <<2, 3, 4, 5, 6, 8, 10, 12, 16, 20, 24, 32, 40, 48, 64, 80,
                    96, 128, 160, 192, 256>>
    IN  (ise_pc # "start" /\ quant_level \in 0..20) =>
            /\ level = levels[quant_level + 1]
            /\ \A m \in 0..20 :
                   m < quant_level => get_quant_level(m) < level

C19_Witness ==
    /\ ise_pc = "level"
    /\ quant_level = 13
    /\ level = 48

\* C30: the level get_quant_level returns for each of the 21 methods is
\* 2^k, 3 * 2^k or 5 * 2^k for some k >= 0, and no other method has the same
\* level.
C30_PackableLevels ==
    /\ Cardinality(QuantMethods) = 21
    /\ (ise_pc # "start" /\ quant_level \in QuantMethods) =>
           /\ \E k \in 0..Log2(level) :
                  level \in {2 ^ k, 3 * (2 ^ k), 5 * (2 ^ k)}
           /\ \A m \in QuantMethods \ {quant_level} :
                  get_quant_level(m) # level

\* The level of QUANT_160, five times a power of two.
C30_Witness ==
    /\ ise_pc = "level"
    /\ quant_level = QUANT_160
    /\ level = 5 * (2 ^ 5)

\* C31: the weight quant methods are exactly the first 12, QUANT_2 ..
\* QUANT_32 with values 0..11, one for each index of
\* quant_and_xfer_tables[12]: they are the methods of level <= 32, so every
\* codepoint of a weight (0 .. level - 1) is an index inside scramble_map[32],
\* unquantized_value[32] and unquantized_value_unsc[33].
C31_WeightQuantMethods ==
    LET quant_and_xfer_tables == 0..(12 - 1)
        scramble_map == 0..(32 - 1)
        unquantized_value == 0..(32 - 1)
        unquantized_value_unsc == 0..(33 - 1)
    IN  /\ QUANT_2..QUANT_32 = quant_and_xfer_tables
        /\ (ise_pc # "start" /\ quant_level \in QuantMethods) =>
               /\ quant_level \in quant_and_xfer_tables <=> level <= 32
               /\ quant_level \in quant_and_xfer_tables =>
                      /\ \A codepoint \in 0..(level - 1) :
                             /\ codepoint \in scramble_map
                             /\ codepoint \in unquantized_value
                             /\ codepoint \in unquantized_value_unsc
                      /\ \A i \in DOMAIN input_data :
                             input_data[i] \in scramble_map

\* A sequence at QUANT_32 that holds the last codepoint, 31.
C31_Witness ==
    /\ ise_pc = "encoded"
    /\ quant_level = QUANT_32
    /\ level = 32
    /\ \E i \in DOMAIN input_data : input_data[i] = 31

\* ================================================== block_size_descriptor
BLOCK_MAX_PARTITIONS == 4
BLOCK_MAX_PARTITIONINGS == 1024
BLOCK_BAD_BLOCK_MODE == 65535

\* The raw block modes: the values of the block mode field of a compressed
\* block (11 bits in the format, ModeBits bits here).
RawModes == 0..((2 ^ ModeBits) - 1)

\* What the table build decides for a raw mode: "omit" (illegal for the block
\* size, or above the percentile cutoff), "keep", or "always" (kept, and in
\* the lowest centile tier).
ModeClasses == {"omit", "keep", "always"}

\* One pass of the table build over the raw modes from m on: each mode of
\* class c is appended to the active array and its array index stored in the
\* packed index table.
RECURSIVE build_pass(_, _, _, _)
build_pass(class, c, m, acc) ==
    IF m \notin RawModes THEN acc
    ELSE build_pass(class, c, m + 1,
            IF class[m] = c
            THEN [modes |-> Append(acc.modes, [mode_index |-> m,
                                               always |-> c = "always"]),
                  index |-> [acc.index EXCEPT ![m] = Len(acc.modes)]]
            ELSE acc)

\* The block mode tables of a descriptor: every entry of the packed index
\* table starts as BLOCK_BAD_BLOCK_MODE; the "always" modes go to the front of
\* the active array, the other kept modes follow.
construct_block_modes(class) ==
    build_pass(class, "keep", 0,
        build_pass(class, "always", 0,
            [modes |-> <<>>, index |-> [m \in RawModes |-> BLOCK_BAD_BLOCK_MODE]]))

\* Mutant of get_block_mode: block_modes is indexed by the raw block mode; a
\* read past the active entries yields an entry that was never filled.
get_block_mode_raw(mode) ==
    LET packed_index == block_mode_packed_index[mode]
    IN  [asserted |-> /\ packed_index # BLOCK_BAD_BLOCK_MODE
                      /\ packed_index < block_mode_count,
         result |-> IF mode + 1 \in DOMAIN block_modes
                    THEN block_modes[mode + 1]
                    ELSE [mode_index |-> 0, always |-> FALSE]]

\* get_block_mode(): the outcome of its assertion and the entry it returns
\* (array indices count from 0 in the program, from 1 in a sequence).
get_block_mode(mode) ==
    LET packed_index == block_mode_packed_index[mode]
    IN  [asserted |-> /\ packed_index # BLOCK_BAD_BLOCK_MODE
                      /\ packed_index < block_mode_count,
         result |-> block_modes[packed_index + 1]]

\* Mutant of get_partition_table: a count of 1 is mapped to 4.
get_partition_table_four(partition_count) ==
    LET n == IF partition_count = 1 THEN 4 ELSE partition_count
    IN  (n - 2) * BLOCK_MAX_PARTITIONINGS

\* get_partition_table(): the index in bsd.partitions of the entry the
\* returned pointer points to.
get_partition_table(partition_count) ==
    LET n == IF partition_count = 1 THEN 5 ELSE partition_count
    IN  (n - 2) * BLOCK_MAX_PARTITIONINGS

\* get_partition_info(): the index in bsd.partitions of the entry returned.
get_partition_info(partition_count, index) ==
    get_partition_table(partition_count) + index

\* The partitions a texel can be assigned to.
Partitions == 0..(BLOCK_MAX_PARTITIONS - 1)

\* Mutant of assign_texels: the texel index is not advanced.
RECURSIVE assign_texels_noadvance(_, _, _)
assign_texels_noadvance(assignment, t, acc) ==
    IF t \notin DOMAIN assignment THEN acc
    ELSE LET part == assignment[t]
         IN  assign_texels_noadvance(assignment, t + 1,
                 [partition_texel_count |->
                      [acc.partition_texel_count EXCEPT ![part] = @ + 1],
                  texels_of_partition |->
                      [acc.texels_of_partition EXCEPT ![part] = Append(@, 0)],
                  partition_of_texel |->
                      Append(acc.partition_of_texel, part)])

\* The texels from t on, each put at the end of the texel list of the
\* partition the assignment function gives it.
RECURSIVE assign_texels(_, _, _)
assign_texels(assignment, t, acc) ==
    IF t \notin DOMAIN assignment THEN acc
    ELSE LET part == assignment[t]
         IN  assign_texels(assignment, t + 1,
                 [partition_texel_count |->
                      [acc.partition_texel_count EXCEPT ![part] = @ + 1],
                  texels_of_partition |->
                      [acc.texels_of_partition EXCEPT ![part] = Append(@, t)],
                  partition_of_texel |->
                      Append(acc.partition_of_texel, part)])

\* One entry of the partition table, for a partition count and the
\* assignment (texel -> partition) the partition function yields for a seed.
\* An entry with an empty partition, and a duplicate of an earlier entry,
\* keeps partition_count = 0.  partition_of_texel[t + 1] is texel t's.
generate_one_partition_info_entry(partition_count, assignment, duplicate) ==
    LET filled == assign_texels(assignment, 0,
                      [partition_texel_count |-> [p \in Partitions |-> 0],
                       texels_of_partition |-> [p \in Partitions |-> <<>>],
                       partition_of_texel |-> <<>>])
        skipped == \/ duplicate
                   \/ \E p \in 0..(partition_count - 1) :
                          filled.partition_texel_count[p] = 0
    IN  [partition_count |-> IF skipped THEN 0 ELSE partition_count]
        @@ filled

\* ------------------------------------------------------- decimation_info
\* Where texel coordinate c of a block n texels wide falls on a grid of w
\* weights, in sixteenths of a weight step.
grid_pos(n, w, c) == (((1024 + n \div 2) \div (n - 1)) * c * (w - 1) + 32) \div 64

\* The factors of the four weights around a texel of a 2D block.
bilinear_factors(fs, ft) ==
    LET w3 == (fs * ft + 8) \div 16
    IN  <<16 - fs - ft + w3, fs - w3, ft - w3, w3>>

\* The factors of the four weights around a texel of a 3D block (simplex
\* interpolation).
simplex_factors(fs, ft, fp) ==
    LET cas == (IF fs > ft THEN 4 ELSE 0) + (IF ft > fp THEN 2 ELSE 0)
               + (IF fs > fp THEN 1 ELSE 0)
    IN  CASE cas = 7 -> <<16 - fs, fs - ft, ft - fp, fp>>
          [] cas = 3 -> <<16 - ft, ft - fs, fs - fp, fp>>
          [] cas = 5 -> <<16 - fs, fs - fp, fp - ft, ft>>
          [] cas = 4 -> <<16 - fp, fp - fs, fs - ft, ft>>
          [] cas = 2 -> <<16 - ft, ft - fp, fp - fs, fs>>
          [] OTHER -> <<16 - fp, fp - ft, ft - fs, fs>>

\* The steps from the first to the second and from the second to the third
\* weight of a texel of a 3D block; N and NM are the grid's row and slice.
simplex_steps(fs, ft, fp, N, NM) ==
    LET cas == (IF fs > ft THEN 4 ELSE 0) + (IF ft > fp THEN 2 ELSE 0)
               + (IF fs > fp THEN 1 ELSE 0)
    IN  CASE cas = 7 -> <<1, N>>
          [] cas = 3 -> <<N, 1>>
          [] cas = 5 -> <<1, NM>>
          [] cas = 4 -> <<NM, 1>>
          [] cas = 2 -> <<N, NM>>
          [] OTHER -> <<NM, N>>

\* The weights that contribute to a texel: of the four pairs (weight index,
\* factor), those with a factor other than 0, in order.
has_factor(pair) == pair[2] # 0
contributions(qweight, weight) ==
    SelectSeq([i \in 1..4 |-> <<qweight[i], weight[i]>>], has_factor)

\* The decimation_info of a texel grid and a weight grid, given the
\* contributions of each texel.
decimation_info_of(texels, weights, contrib) ==
    [texel_count |-> texels[1] * texels[2] * texels[3],
     weight_count |-> weights[1] * weights[2] * weights[3],
     weight_x |-> weights[1],
     weight_y |-> weights[2],
     weight_z |-> weights[3],
     texel_weight_count |->
         [t \in 0..(texels[1] * texels[2] * texels[3] - 1) |-> Len(contrib[t])],
     texel_weights_4t |->
         [j \in 0..3 |-> [t \in 0..(texels[1] * texels[2] * texels[3] - 1) |->
             IF j < Len(contrib[t]) THEN contrib[t][j + 1][1] ELSE 0]],
     texel_weights_int_4t |->
         [j \in 0..3 |-> [t \in 0..(texels[1] * texels[2] * texels[3] - 1) |->
             IF j < Len(contrib[t]) THEN contrib[t][j + 1][2] ELSE 0]]]

\* Mutant of texel_contributions_2d: the factor of the first weight leaves
\* out the rounded product.
texel_contributions_2d_noprod(x_texels, y_texels, x_weights, y_weights, t) ==
    LET xw == grid_pos(x_texels, x_weights, t % x_texels)
        yw == grid_pos(y_texels, y_weights, t \div x_texels)
        q0 == (xw \div 16) + (yw \div 16) * x_weights
        f == bilinear_factors(xw % 16, yw % 16)
    IN  contributions(<<q0, q0 + 1, q0 + x_weights, q0 + x_weights + 1>>,
                      <<16 - (xw % 16) - (yw % 16), f[2], f[3], f[4]>>)

\* The contributions of texel t of a 2D block.
texel_contributions_2d(x_texels, y_texels, x_weights, y_weights, t) ==
    LET xw == grid_pos(x_texels, x_weights, t % x_texels)
        yw == grid_pos(y_texels, y_weights, t \div x_texels)
        q0 == (xw \div 16) + (yw \div 16) * x_weights
    IN  contributions(<<q0, q0 + 1, q0 + x_weights, q0 + x_weights + 1>>,
                      bilinear_factors(xw % 16, yw % 16))

\* The contributions of texel t of a 3D block.
texel_contributions_3d(texels, weights, t) ==
    LET xw == grid_pos(texels[1], weights[1], t % texels[1])
        yw == grid_pos(texels[2], weights[2], (t \div texels[1]) % texels[2])
        zw == grid_pos(texels[3], weights[3], t \div (texels[1] * texels[2]))
        N == weights[1]
        NM == weights[1] * weights[2]
        q0 == ((zw \div 16) * weights[2] + (yw \div 16)) * N + (xw \div 16)
        q3 == (((zw \div 16) + 1) * weights[2] + ((yw \div 16) + 1)) * N
              + ((xw \div 16) + 1)
        s == simplex_steps(xw % 16, yw % 16, zw % 16, N, NM)
    IN  contributions(<<q0, q0 + s[1], q0 + s[1] + s[2], q3>>,
                      simplex_factors(xw % 16, yw % 16, zw % 16))

init_decimation_info_2d(x_texels, y_texels, x_weights, y_weights) ==
    decimation_info_of(<<x_texels, y_texels, 1>>, <<x_weights, y_weights, 1>>,
        [t \in 0..(x_texels * y_texels - 1) |->
            texel_contributions_2d(x_texels, y_texels, x_weights, y_weights, t)])

init_decimation_info_3d(texels, weights) ==
    decimation_info_of(texels, weights,
        [t \in 0..(texels[1] * texels[2] * texels[3] - 1) |->
            texel_contributions_3d(texels, weights, t)])

\* The block and weight grid sizes: 2D blocks are 4 or more texels wide, 3D
\* blocks 3 or more; a weight grid has 2 or more weights in each dimension
\* and no more than the block has texels.
Grids2D == {g \in (4..MaxDim2D) \X (2..MaxDim2D) : g[2] <= g[1]}
Grids3D == {g \in (3..MaxDim3D) \X (2..MaxDim3D) : g[2] <= g[1]}

\* ------------------------------------------ the descriptor's specification
BsdInit ==
    /\ ParallelManager
    /\ call_unused /\ img_unused /\ mem_unused
    /\ ise_unused
    /\ phys_unused
    /\ texel_count = 0
    /\ block_mode_count = 0
    /\ block_modes = <<>>
    /\ block_mode_packed_index = <<>>
    /\ block_mode = <<>>
    /\ partition_args = <<>>
    /\ partition_slot = 0
    /\ texel_count = 0
    /\ pi = <<>>
    /\ di = <<>>
    /\ bsd_pc = "start"

\* The block mode part of the descriptor's initialization.
init_block_modes(class) ==
    /\ bsd_pc = "start"
    /\ LET built == construct_block_modes(class)
       IN  /\ block_modes' = built.modes
           /\ block_mode_count' = Len(built.modes)
           /\ block_mode_packed_index' = built.index
    /\ bsd_pc' = "modes"
    /\ UNCHANGED <<block_mode, partition_args, partition_slot, texel_count, pi, di>>

\* A call of get_block_mode; its caller has checked that the mode's packed
\* index is not BLOCK_BAD_BLOCK_MODE, as the method's comment demands.
get_block_mode_call(mode) ==
    /\ bsd_pc = "modes"
    /\ block_mode_packed_index[mode] # BLOCK_BAD_BLOCK_MODE
    /\ block_mode' = [arg |-> mode] @@ get_block_mode(mode)
    /\ bsd_pc' = "mode"
    /\ UNCHANGED <<block_mode_count, block_modes, block_mode_packed_index,
                   partition_args, partition_slot, texel_count, pi, di>>

\* A call of get_partition_info with a count of 2..4 and a seed of 0..1023,
\* or with a count of 1 and index 0.
get_partition_info_call(partition_count, index) ==
    /\ bsd_pc = "start"
    /\ partition_args' = [partition_count |-> partition_count, index |-> index]
    /\ partition_slot' = get_partition_info(partition_count, index)
    /\ bsd_pc' = "info"
    /\ UNCHANGED <<block_mode_count, block_modes, block_mode_packed_index,
                   block_mode, texel_count, pi, di>>

\* One entry of the partition table is built, for a block of n texels.
init_partition_entry(n, partition_count, assignment, duplicate) ==
    /\ bsd_pc = "start"
    /\ texel_count' = n
    /\ pi' = generate_one_partition_info_entry(partition_count, assignment, duplicate)
    /\ bsd_pc' = "entry"
    /\ UNCHANGED <<block_mode_count, block_modes, block_mode_packed_index,
                   block_mode, partition_args, partition_slot, di>>

\* One decimation table of a 2D block is built.
init_decimation_2d(gx, gy) ==
    /\ bsd_pc = "start"
    /\ texel_count' = gx[1] * gy[1]
    /\ di' = init_decimation_info_2d(gx[1], gy[1], gx[2], gy[2])
    /\ bsd_pc' = "decimation"
    /\ UNCHANGED <<block_mode_count, block_modes, block_mode_packed_index,
                   block_mode, partition_args, partition_slot, pi>>

\* One decimation table of a 3D block is built.
init_decimation_3d(gx, gy, gz) ==
    /\ bsd_pc = "start"
    /\ texel_count' = gx[1] * gy[1] * gz[1]
    /\ di' = init_decimation_info_3d(<<gx[1], gy[1], gz[1]>>, <<gx[2], gy[2], gz[2]>>)
    /\ bsd_pc' = "decimation"
    /\ UNCHANGED <<block_mode_count, block_modes, block_mode_packed_index,
                   block_mode, partition_args, partition_slot, pi>>

\* The descriptor is initialized once, and then only read.
BsdNext ==
    \/ /\ bsd_pc = "start"
       /\ \E n \in 1..MaxPartTexels, partition_count \in 1..BLOCK_MAX_PARTITIONS :
              \E assignment \in [0..(n - 1) -> 0..(partition_count - 1)],
                 duplicate \in BOOLEAN :
                  init_partition_entry(n, partition_count, assignment, duplicate)
       /\ UNCHANGED <<manager, ise_vars, phys_vars, call_vars, img_vars, mem_vars>>
    \/ /\ bsd_pc = "start"
       /\ \E gx \in Grids2D, gy \in Grids2D : init_decimation_2d(gx, gy)
       /\ UNCHANGED <<manager, ise_vars, phys_vars, call_vars, img_vars, mem_vars>>
    \/ /\ bsd_pc = "start"
       /\ \E gx \in Grids3D, gy \in Grids3D, gz \in Grids3D :
              init_decimation_3d(gx, gy, gz)
       /\ UNCHANGED <<manager, ise_vars, phys_vars, call_vars, img_vars, mem_vars>>
    \/ /\ bsd_pc = "start"
       /\ \E class \in [RawModes -> ModeClasses] : init_block_modes(class)
       /\ UNCHANGED <<manager, ise_vars, phys_vars, call_vars, img_vars, mem_vars>>
    \/ /\ bsd_pc = "modes"
       /\ \E mode \in RawModes : get_block_mode_call(mode)
       /\ UNCHANGED <<manager, ise_vars, phys_vars, call_vars, img_vars, mem_vars>>
    \/ /\ bsd_pc = "start"
       /\ \E partition_count \in 1..BLOCK_MAX_PARTITIONS :
              \E index \in IF partition_count = 1 THEN {0}
                           ELSE 0..(BLOCK_MAX_PARTITIONINGS - 1) :
                  get_partition_info_call(partition_count, index)
       /\ UNCHANGED <<manager, ise_vars, phys_vars, call_vars, img_vars, mem_vars>>

BsdSpec == BsdInit /\ [][BsdNext]_vars

\* ----------------------------------------------------------------- claims
\* C13: in every initialized block size descriptor, for every raw block mode
\* m, block_mode_packed_index[m] is either BLOCK_BAD_BLOCK_MODE (0xFFFF) or
\* an index below block_mode_count whose entry of block_modes has
\* mode_index = m; so the assertion in get_block_mode holds and the entry it
\* returns is the one of the mode asked for.
C13_PackedIndexConsistent ==
    /\ bsd_pc \in {"modes", "mode"} =>
           \A m \in RawModes :
               \/ block_mode_packed_index[m] = 65535
               \/ /\ block_mode_packed_index[m] < block_mode_count
                  /\ block_modes[block_mode_packed_index[m] + 1].mode_index = m
    /\ bsd_pc = "mode" =>
           /\ block_mode.asserted
           /\ block_mode.result.mode_index = block_mode.arg

\* An "always" mode with a higher raw value than a kept mode, so the two
\* orders differ, looked up.
C13_Witness ==
    /\ bsd_pc = "mode"
    /\ block_mode_count >= 2
    /\ block_mode.arg = 1
    /\ block_mode_packed_index[1] = 1
    /\ block_mode_packed_index[0] = 65535
    /\ block_mode.result.mode_index = 1

\* C16: partition table layout.  get_partition_table(2), (3) and (4) start at
\* indices 0, 1024 and 2048 of the partitions array and
\* get_partition_table(1) at index 3 * 1024; get_partition_info stays within
\* the (3 * 1024) + 1 entries for counts 2..4 with seeds 0..1023 and for
\* count 1 with seed 0; entries of different counts never overlap.
C16_PartitionLayout ==
    LET first(c) == CASE c = 2 -> 0 [] c = 3 -> 1024 [] c = 4 -> 2048
                      [] c = 1 -> 3 * 1024
        entries(c) == IF c = 1 THEN 1 ELSE 1024
    IN  bsd_pc = "info" =>
            /\ partition_slot = first(partition_args.partition_count)
                                + partition_args.index
            /\ partition_slot \in 0..(3 * 1024)
            /\ \A c \in 1..4 \ {partition_args.partition_count} :
                   ~(first(c) <= partition_slot
                     /\ partition_slot < first(c) + entries(c))

C16_Witness ==
    /\ bsd_pc = "info"
    /\ partition_args = [partition_count |-> 1, index |-> 0]
    /\ partition_slot = 3072

\* C17: for every partition info with partition_count > 0,
\* partition_texel_count sums to the block's texel count, and each texel
\* appears exactly once in the texel list of the partition that
\* partition_of_texel names for it.
C17_PartitionTexels ==
    (bsd_pc = "entry" /\ pi.partition_count > 0) =>
        /\ pi.partition_texel_count[0] + pi.partition_texel_count[1]
           + pi.partition_texel_count[2] + pi.partition_texel_count[3]
             = texel_count
        /\ \A t \in 0..(texel_count - 1) :
               LET list == pi.texels_of_partition[pi.partition_of_texel[t + 1]]
                   n == pi.partition_texel_count[pi.partition_of_texel[t + 1]]
               IN  Cardinality({k \in DOMAIN list : k <= n /\ list[k] = t}) = 1

\* Three partitions over four texels, none empty.
C17_Witness ==
    /\ bsd_pc = "entry"
    /\ texel_count = MaxPartTexels
    /\ pi.partition_count = 3
    /\ pi.partition_texel_count[1] = texel_count - 2
    /\ pi.partition_of_texel[1] = 2

\* C18: for every decimation mode and every texel t, the four values
\* texel_weights_int_4t[0..3][t] sum to exactly 16 and each lies in 0..16.
C18_WeightsSum16 ==
    bsd_pc = "decimation" =>
        \A t \in 0..(texel_count - 1) :
            /\ di.texel_weights_int_4t[0][t] + di.texel_weights_int_4t[1][t]
               + di.texel_weights_int_4t[2][t] + di.texel_weights_int_4t[3][t] = 16
            /\ \A j \in 0..3 : di.texel_weights_int_4t[j][t] \in 0..16

\* A 3D grid on which some texel takes four weights and another only one.
C18_Witness ==
    /\ bsd_pc = "decimation"
    /\ di.weight_z > 1
    /\ di.weight_count < di.texel_count
    /\ \E t \in 0..(texel_count - 1) : di.texel_weight_count[t] = 4
    /\ di.texel_weight_count[0] = 1

(***************************************************************************)
(* Symbolic and physical compressed blocks                                 *)
(***************************************************************************)

\* enum endpoint_formats.
FMT_LUMINANCE == 0
FMT_LUMINANCE_DELTA == 1
FMT_HDR_LUMINANCE_LARGE_RANGE == 2
FMT_HDR_LUMINANCE_SMALL_RANGE == 3
FMT_LUMINANCE_ALPHA == 4
FMT_LUMINANCE_ALPHA_DELTA == 5
FMT_RGB_SCALE == 6
FMT_HDR_RGB_SCALE == 7
FMT_RGB == 8
FMT_RGB_DELTA == 9
FMT_RGB_SCALE_ALPHA == 10
FMT_HDR_RGB == 11
FMT_RGBA == 12
FMT_RGBA_DELTA == 13
FMT_HDR_RGB_LDR_ALPHA == 14

\* Mutant of FMT_HDR_RGBA: the last format takes the value after the field's
\* range.
FMT_HDR_RGBA_next == FMT_HDR_RGB_LDR_ALPHA + 2

FMT_HDR_RGBA == 15

\* The enumerators in the order the enum declares them.
endpoint_formats ==
    <<FMT_LUMINANCE, FMT_LUMINANCE_DELTA, FMT_HDR_LUMINANCE_LARGE_RANGE,
      FMT_HDR_LUMINANCE_SMALL_RANGE, FMT_LUMINANCE_ALPHA,
      FMT_LUMINANCE_ALPHA_DELTA, FMT_RGB_SCALE, FMT_HDR_RGB_SCALE, FMT_RGB,
      FMT_RGB_DELTA, FMT_RGB_SCALE_ALPHA, FMT_HDR_RGB, FMT_RGBA,
      FMT_RGBA_DELTA, FMT_HDR_RGB_LDR_ALPHA, FMT_HDR_RGBA>>

\* The values that name an endpoint format.
EndpointFormats == {endpoint_formats[i] : i \in DOMAIN endpoint_formats}

BLOCK_MAX_WEIGHTS == 64
BLOCK_MIN_WEIGHT_BITS == 24
BLOCK_MAX_WEIGHT_BITS == 96
\* Mutant of PARTITION_INDEX_BITS: the seed field has one bit more, as wide as the block
\* mode field.
PARTITION_INDEX_BITS_wide == Log2(2 * BLOCK_MAX_PARTITIONINGS)
PARTITION_INDEX_BITS == 10
BLOCK_MAX_WEIGHTS_2PLANE == BLOCK_MAX_WEIGHTS \div 2
\* Mutant of WEIGHTS_PLANE2_OFFSET: the second plane starts one entry early.
WEIGHTS_PLANE2_OFFSET_low == BLOCK_MAX_WEIGHTS_2PLANE - 1
WEIGHTS_PLANE2_OFFSET == BLOCK_MAX_WEIGHTS_2PLANE

\* Mutant of WEIGHTS_MAX_BLOCK_MODES: the tables have one entry for each
\* value of a field as wide as the partition index.
WEIGHTS_MAX_BLOCK_MODES_short == 2 ^ PARTITION_INDEX_BITS

WEIGHTS_MAX_BLOCK_MODES == 2048

SYM_BTYPE_ERROR == 0
SYM_BTYPE_CONST_F16 == 1
SYM_BTYPE_CONST_U16 == 2
SYM_BTYPE_NONCONST == 3

\* The width of a physical block, in bytes and in bits.
BlockBytes == 16
BlockBits == 8 * BlockBytes

\* The width of the endpoint format field of a partition.
FormatBits == 4

\* ------------------------------------------ the descriptor of a 4x4 block
\* The sides of the block the conversions are run for.
xdim == 4
ydim == 4

\* The weight grid, weight quant level and dual-plane flag that a raw block
\* mode asks for in a 2D block, or ok = FALSE when the field is reserved or
\* its weights fall outside what a block may hold.
decode_block_mode_2d(mode) ==
    LET R == Bit(mode, 4) + 2 * Field(mode, 0, 2)
        H == Bit(mode, 9)
        D == Bit(mode, 10)
        A == Field(mode, 5, 2)
        B == Field(mode, 7, 2)
        layout == Field(mode, 2, 2)
        x_weights == CASE layout = 0 -> B + 4
                       [] layout = 1 -> B + 8
                       [] layout = 2 -> A + 2
                       [] OTHER -> IF Bit(mode, 8) = 1 THEN (B % 2) + 2 ELSE A + 2
        y_weights == CASE layout = 0 -> A + 2
                       [] layout = 1 -> A + 2
                       [] layout = 2 -> B + 8
                       [] OTHER -> IF Bit(mode, 8) = 1 THEN A + 2 ELSE (B % 2) + 6
        quant_mode == (R - 2) + 6 * H
        weight_count == x_weights * y_weights * (D + 1)
        weight_bits == get_ise_sequence_bitcount(weight_count, quant_mode)
    IN  [ok |-> /\ Field(mode, 0, 2) # 0
                /\ weight_count <= BLOCK_MAX_WEIGHTS
                /\ weight_bits >= BLOCK_MIN_WEIGHT_BITS
                /\ weight_bits <= BLOCK_MAX_WEIGHT_BITS,
         x_weights |-> x_weights,
         y_weights |-> y_weights,
         quant_mode |-> quant_mode,
         is_dual_plane |-> D]

\* The raw block modes that are active for the block: legal, and with a
\* weight grid no larger than the block.
ActiveModes ==
    {m \in 0..(WEIGHTS_MAX_BLOCK_MODES - 1) :
        LET bm == decode_block_mode_2d(m)
        IN  bm.ok /\ bm.x_weights <= xdim /\ bm.y_weights <= ydim}

\* The descriptor's packed index table: the position of an active mode in
\* the active array, BLOCK_BAD_BLOCK_MODE for every other raw mode.
packed_index_4x4 ==
    [m \in 0..(WEIGHTS_MAX_BLOCK_MODES - 1) |->
        IF m \in ActiveModes
        THEN Cardinality({k \in ActiveModes : k < m})
        ELSE BLOCK_BAD_BLOCK_MODE]

\* The descriptor's active array, in incrementing raw mode order.
block_modes_4x4 ==
    [i \in 1..Cardinality(ActiveModes) |->
        LET m == CHOOSE k \in ActiveModes : packed_index_4x4[k] = i - 1
            bm == decode_block_mode_2d(m)
        IN  [mode_index |-> m,
             weight_count |-> bm.x_weights * bm.y_weights,
             quant_mode |-> bm.quant_mode,
             is_dual_plane |-> bm.is_dual_plane]]

\* --------------------------------------------------- physical_to_symbolic
\* A byte with its bits in the opposite order.
bitrev8(p) == ValueOf([i \in 1..8 |-> Bit(p, 8 - i)])

\* A block read from its high end downward: bit j of the result is bit
\* 127 - j of the block.
bswapped(data) == [i \in 1..BlockBytes |-> bitrev8(data[BlockBytes + 1 - i])]

\* The most endpoint integers a block can carry.
MaxColorIntegers == 18

\* quant_mode_table[integercount/2][bits]: the highest quant level at which
\* that many integers fit in that many bits, -1 when no level fits.  Endpoint
\* integers are stored at QUANT_6 or above.
quant_mode_table(pairs, bits) ==
    LET fits == {q \in QUANT_6..QUANT_256 :
                    get_ise_sequence_bitcount(2 * pairs, q) <= bits}
    IN  IF fits = {} THEN -1
        ELSE CHOOSE q \in fits : \A o \in fits : o <= q

\* The symbolic form of an invalid encoding.
error_block == [block_type |-> SYM_BTYPE_ERROR]

\* The all-ones value of a 13-bit void-extent coordinate.
VoidExtentOnes == (2 ^ 13) - 1

\* The constant colour block of a void-extent encoding: the reserved bits
\* must be set and the extent must be all ones or a non-empty range.
void_extent_to_symbolic(data, mode) ==
    LET rsvbits == read_bits(data, 10, 2)
        vx_low_s == read_bits(data, 12, 13)
        vx_high_s == read_bits(data, 25, 13)
        vx_low_t == read_bits(data, 38, 13)
        vx_high_t == read_bits(data, 51, 13)
        all_ones == /\ vx_low_s = VoidExtentOnes /\ vx_high_s = VoidExtentOnes
                    /\ vx_low_t = VoidExtentOnes /\ vx_high_t = VoidExtentOnes
    IN  IF rsvbits # 3 THEN error_block
        ELSE IF (vx_low_s >= vx_high_s \/ vx_low_t >= vx_high_t) /\ ~all_ones
        THEN error_block
        ELSE [block_type |-> IF Bit(mode, 9) = 1 THEN SYM_BTYPE_CONST_F16
                             ELSE SYM_BTYPE_CONST_U16,
              constant_color |->
                  [i \in 0..3 |-> data[2 * i + 9] + 256 * data[2 * i + 10]]]

\* The endpoint integers that a format stores.
format_integers(format) == 2 * ((format \div 4) + 1)

\* The endpoint integers of the first n partitions of a block.
RECURSIVE integers_before(_, _)
integers_before(formats, n) ==
    IF n = 0 THEN 0
    ELSE integers_before(formats, n - 1) + format_integers(formats[n])

\* The bit position of the first endpoint format field.
format_pos(partition_count) ==
    IF partition_count = 1 THEN 13 ELSE 13 + PARTITION_INDEX_BITS

\* The bit position of the endpoint integers.
color_pos(partition_count) ==
    format_pos(partition_count) + FormatBits * partition_count

\* The weights of a block as the symbolic form holds them: the second plane
\* starts at WEIGHTS_PLANE2_OFFSET; the stored sequence interleaves the planes.
plane_weights(indices, weight_count, is_dual_plane) ==
    IF is_dual_plane = 1
    THEN [i \in (0..(weight_count - 1))
                \cup (WEIGHTS_PLANE2_OFFSET..(WEIGHTS_PLANE2_OFFSET + weight_count - 1)) |->
            IF i < WEIGHTS_PLANE2_OFFSET THEN indices[2 * i + 1]
            ELSE indices[2 * (i - WEIGHTS_PLANE2_OFFSET) + 2]]
    ELSE [i \in 0..(weight_count - 1) |-> indices[i + 1]]

\* physical_to_symbolic(): the symbolic block of 16 bytes (scb) and whether
\* every table index and bit position used on the way was in range.
physical_to_symbolic(data) ==
    LET mode == read_bits(data, 0, 11)
    IN  IF mode % 512 = 508
        THEN [scb |-> void_extent_to_symbolic(data, mode), in_range |-> TRUE]
        ELSE IF mode \notin DOMAIN block_mode_packed_index
        THEN [scb |-> error_block, in_range |-> FALSE]
        ELSE IF block_mode_packed_index[mode] = BLOCK_BAD_BLOCK_MODE
        THEN [scb |-> error_block, in_range |-> TRUE]
        ELSE
        LET found == get_block_mode(mode)
            bm == found.result
            weight_count == bm.weight_count
            real_weight_count == weight_count * (bm.is_dual_plane + 1)
            partition_count == read_bits(data, 11, 2) + 1
            bits_for_weights ==
                get_ise_sequence_bitcount(real_weight_count, bm.quant_mode)
            below_weights_pos == BlockBits - bits_for_weights
            indices == decode_ise(bm.quant_mode, real_weight_count,
                                  bswapped(data), 0)
            color_formats ==
                [i \in 1..partition_count |->
                    read_bits(data, format_pos(partition_count)
                                    + FormatBits * (i - 1), FormatBits)]
            color_integer_count == integers_before(color_formats, partition_count)
            color_bits_left == below_weights_pos - 2 * bm.is_dual_plane
                               - color_pos(partition_count)
            color_bits == IF color_bits_left < 0 THEN 0 ELSE color_bits_left
            color_quant_level ==
                quant_mode_table(color_integer_count \div 2, color_bits)
            values_to_decode ==
                decode_ise(color_quant_level, color_integer_count, data,
                           color_pos(partition_count))
            weights_ok == /\ found.asserted
                          /\ real_weight_count <= BLOCK_MAX_WEIGHTS
                          /\ weight_count <= WEIGHTS_PLANE2_OFFSET
                             \/ bm.is_dual_plane = 0
                          /\ bits_for_weights <= BlockBits
            table_ok == /\ color_integer_count \div 2 \in 0..16
                        /\ color_bits \in 0..127
            colors_ok == /\ color_pos(partition_count)
                            + get_ise_sequence_bitcount(color_integer_count,
                                                        color_quant_level)
                            <= BlockBits
                         /\ below_weights_pos - 2 * bm.is_dual_plane >= 0
        IN  IF bm.is_dual_plane = 1 /\ partition_count = 4
            THEN [scb |-> error_block, in_range |-> weights_ok]
            ELSE IF color_integer_count > MaxColorIntegers
            THEN [scb |-> error_block, in_range |-> weights_ok]
            ELSE IF color_quant_level < QUANT_6
            THEN [scb |-> error_block, in_range |-> weights_ok /\ table_ok]
            ELSE [scb |->
                    [block_type |-> SYM_BTYPE_NONCONST,
                     partition_count |-> partition_count,
                     plane2_component |->
                         IF bm.is_dual_plane = 1
                         THEN read_bits(data, below_weights_pos - 2, 2)
                         ELSE -1,
                     block_mode |-> mode,
                     partition_index |->
                         IF partition_count = 1 THEN 0
                         ELSE read_bits(data, 13, PARTITION_INDEX_BITS),
                     color_formats |-> color_formats,
                     quant_mode |-> color_quant_level,
                     color_values |->
                         [i \in 1..partition_count |->
                             [j \in 1..format_integers(color_formats[i]) |->
                                 values_to_decode[
                                     integers_before(color_formats, i - 1) + j]]],
                     weights |-> plane_weights(indices, weight_count,
                                               bm.is_dual_plane)],
                  in_range |-> weights_ok /\ table_ok /\ colors_ok]

\* --------------------------------------------------- symbolic_to_physical
\* Mutant of stored_weights: the second plane follows the first.
stored_weights_planar(weights, weight_count, is_dual_plane) ==
    [k \in 1..(weight_count * (is_dual_plane + 1)) |->
        IF k <= weight_count THEN weights[k - 1]
        ELSE weights[WEIGHTS_PLANE2_OFFSET + k - weight_count - 1]]

\* The weights in stored order: the two planes interleaved when dual-plane.
stored_weights(weights, weight_count, is_dual_plane) ==
    [k \in 1..(weight_count * (is_dual_plane + 1)) |->
        IF is_dual_plane = 0 THEN weights[k - 1]
        ELSE IF k % 2 = 1 THEN weights[(k - 1) \div 2]
        ELSE weights[WEIGHTS_PLANE2_OFFSET + ((k - 2) \div 2)]]

\* The endpoint integers of all partitions, one partition after the other.
stored_colors(color_formats, color_values) ==
    [k \in 1..integers_before(color_formats, Len(color_formats)) |->
        LET i == CHOOSE n \in DOMAIN color_formats :
                    /\ integers_before(color_formats, n - 1) < k
                    /\ k <= integers_before(color_formats, n)
        IN  color_values[i][k - integers_before(color_formats, i - 1)]]

\* The void-extent encoding of a constant colour block: the marker, the
\* block-type tag, an extent of all ones, and the colour.
constant_to_physical(s) ==
    [i \in 1..BlockBytes |->
        IF i = 1 THEN 252
        ELSE IF i = 2
        THEN (IF s.block_type = SYM_BTYPE_CONST_F16 THEN 255 ELSE 253)
        ELSE IF i <= 8 THEN 255
        ELSE Field(s.constant_color[(i - 9) \div 2], 8 * ((i - 9) % 2), 8)]

\* symbolic_to_physical(): the 16 bytes of a symbolic block that is not an
\* error block.
symbolic_to_physical(s) ==
    IF s.block_type # SYM_BTYPE_NONCONST THEN constant_to_physical(s)
    ELSE
    LET bm == get_block_mode(s.block_mode).result
        real_weight_count == bm.weight_count * (bm.is_dual_plane + 1)
        bits_for_weights ==
            get_ise_sequence_bitcount(real_weight_count, bm.quant_mode)
        below_weights_pos == BlockBits - bits_for_weights
        weightbuf ==
            encode_ise(bm.quant_mode, real_weight_count,
                       stored_weights(s.weights, bm.weight_count, bm.is_dual_plane),
                       [i \in 1..BlockBytes |-> 0], 0)
        with_mode == write_bits(bswapped(weightbuf), 0, BitsOf(s.block_mode, 11))
        with_count == write_bits(with_mode, 11, BitsOf(s.partition_count - 1, 2))
        with_index ==
            IF s.partition_count = 1 THEN with_count
            ELSE write_bits(with_count, 13,
                            BitsOf(s.partition_index, PARTITION_INDEX_BITS))
        with_formats ==
            write_bits(with_index, format_pos(s.partition_count),
                       [k \in 1..(FormatBits * s.partition_count) |->
                           Bit(s.color_formats[((k - 1) \div FormatBits) + 1],
                               (k - 1) % FormatBits)])
        with_colors ==
            encode_ise(s.quant_mode,
                       integers_before(s.color_formats, s.partition_count),
                       stored_colors(s.color_formats, s.color_values),
                       with_formats, color_pos(s.partition_count))
    IN  IF bm.is_dual_plane = 1
        THEN write_bits(with_colors, below_weights_pos - 2,
                        BitsOf(s.plane2_component, 2))
        ELSE with_colors

(***************************************************************************)
(* Specification PhysSpec: a 16-byte block is converted to its symbolic    *)
(* form, a block that is not an error block is converted back, and the     *)
(* result is converted once more.                                          *)
(***************************************************************************)

\* The block mode fields tried: each layout of the low four bits with each
\* precision, plane and grid bit, and the void-extent markers.
ModeFields ==
    {n + 16 * r0 + 32 * a + 128 * b + 512 * h + 1024 * d :
        n \in {0, 1, 5, 14}, r0 \in {0, 1}, a \in {0, 2}, b \in {0, 2},
        h \in {0, 1}, d \in {0, 1}}
    \cup {508 + 512 * k : k \in 0..3}

\* The bytes the rest of a block is filled with.
FillBytes == {(85 * k) % 256 : k \in 0..MaxFill}

\* The difference between one byte of the fill and the next.
FillSteps == {37 * k : k \in 0..MaxStep}

\* A block: a fill pattern under a block mode field and a partition field.
Block(mode, partitions, fill, step) ==
    write_bits(write_bits([i \in 1..BlockBytes |-> (fill + (i - 1) * step) % 256],
                          0, BitsOf(mode, 11)),
               11, BitsOf(partitions, 2))

PhysInit ==
    /\ ParallelManager
    /\ call_unused /\ img_unused /\ mem_unused
    /\ ise_unused
    /\ block_mode_count = Cardinality(ActiveModes)
    /\ block_modes = block_modes_4x4
    /\ block_mode_packed_index = packed_index_4x4
    /\ block_mode = <<>>
    /\ partition_args = <<>>
    /\ partition_slot = 0
    /\ texel_count = xdim * ydim
    /\ pi = <<>>
    /\ di = <<>>
    /\ bsd_pc = "built"
    /\ pcb \in {Block(mode, partitions, fill, step) :
                    mode \in ModeFields, partitions \in 0..3,
                    fill \in FillBytes, step \in FillSteps}
    /\ scb = <<>>
    /\ in_range = TRUE
    /\ pcb_out = <<>>
    /\ scb_out = <<>>
    /\ phys_pc = "start"

\* physical_to_symbolic(bsd, pcb, scb).
physical_to_symbolic_call ==
    /\ phys_pc = "start"
    /\ LET r == physical_to_symbolic(pcb)
       IN  /\ scb' = r.scb
           /\ in_range' = r.in_range
    /\ phys_pc' = "symbolic"
    /\ UNCHANGED <<pcb, pcb_out, scb_out>>

\* symbolic_to_physical(bsd, scb, pcb) of a block that is not an error block.
symbolic_to_physical_call ==
    /\ phys_pc = "symbolic"
    /\ scb.block_type # SYM_BTYPE_ERROR
    /\ pcb_out' = symbolic_to_physical(scb)
    /\ phys_pc' = "physical"
    /\ UNCHANGED <<pcb, scb, in_range, scb_out>>

\* physical_to_symbolic(bsd, pcb, scb) of the block written back.
physical_to_symbolic_again ==
    /\ phys_pc = "physical"
    /\ LET r == physical_to_symbolic(pcb_out)
       IN  /\ scb_out' = r.scb
           /\ in_range' = (in_range /\ r.in_range)
    /\ phys_pc' = "reread"
    /\ UNCHANGED <<pcb, scb, pcb_out>>

PhysNext ==
    \/ physical_to_symbolic_call /\ UNCHANGED <<manager, ise_vars, bsd_vars, call_vars, img_vars, mem_vars>>
    \/ symbolic_to_physical_call /\ UNCHANGED <<manager, ise_vars, bsd_vars, call_vars, img_vars, mem_vars>>
    \/ physical_to_symbolic_again /\ UNCHANGED <<manager, ise_vars, bsd_vars, call_vars, img_vars, mem_vars>>

PhysSpec == PhysInit /\ [][PhysNext]_vars

\* Whether a field of the block is malformed: a reserved block mode, a block
\* mode that is not active in the descriptor, reserved void-extent bits that
\* are not set, a second weight plane with four partitions, or endpoint
\* integers that do not fit below the weights even at the lowest level.
Malformed(data) ==
    LET mode == read_bits(data, 0, 11)
        partition_count == read_bits(data, 11, 2) + 1
        bm == decode_block_mode_2d(mode)
        weight_bits ==
            get_ise_sequence_bitcount(
                bm.x_weights * bm.y_weights * (bm.is_dual_plane + 1), bm.quant_mode)
        color_integers ==
            integers_before(
                [i \in 1..partition_count |->
                    read_bits(data, format_pos(partition_count)
                                    + FormatBits * (i - 1), FormatBits)],
                partition_count)
    IN  IF mode % 512 = 508 THEN read_bits(data, 10, 2) # 3
        ELSE \/ ~bm.ok
             \/ bm.x_weights > xdim
             \/ bm.y_weights > ydim
             \/ bm.is_dual_plane = 1 /\ partition_count = 4
             \/ color_pos(partition_count)
                + get_ise_sequence_bitcount(color_integers, QUANT_6)
                + 2 * bm.is_dual_plane + weight_bits > BlockBits

\* C14: physical_to_symbolic accepts every 16-byte input: the result is a
\* symbolic block of one of the four block types, it is an error block
\* whenever a field of the input is malformed, and every table index and bit
\* position used on the way is in range.
C14_ArbitraryInput ==
    phys_pc \in {"symbolic", "physical", "reread"} =>
        /\ in_range
        /\ scb.block_type \in {SYM_BTYPE_ERROR, SYM_BTYPE_CONST_F16,
                               SYM_BTYPE_CONST_U16, SYM_BTYPE_NONCONST}
        /\ Malformed(pcb) => scb.block_type = SYM_BTYPE_ERROR

\* An active dual-plane block mode above 1024 with four partitions: an error
\* block.
C14_Witness ==
    /\ phys_pc = "symbolic"
    /\ read_bits(pcb, 0, 11) \in ActiveModes
    /\ read_bits(pcb, 0, 11) >= 1024
    /\ read_bits(pcb, 11, 2) = 3
    /\ scb.block_type = SYM_BTYPE_ERROR

C20_EndpointFormats ==
    /\ Len(endpoint_formats) = 16
    /\ \A i \in DOMAIN endpoint_formats : endpoint_formats[i] = i - 1
    /\ EndpointFormats = 0..((2 ^ FormatBits) - 1)
    /\ phys_pc \in {"symbolic", "physical", "reread"}
       /\ scb.block_type = SYM_BTYPE_NONCONST
       => \A i \in DOMAIN scb.color_formats :
              scb.color_formats[i] \in EndpointFormats

\* A block of the last format, HDR RGBA, written back and read again.
C20_Witness ==
    /\ phys_pc = "reread"
    /\ scb_out.block_type = SYM_BTYPE_NONCONST
    /\ \E i \in DOMAIN scb_out.color_formats :
           scb_out.color_formats[i] = FMT_HDR_RGBA

\* C29: a dual-plane symbolic block holds n <= BLOCK_MAX_WEIGHTS_2PLANE = 32
\* weights per plane, plane 1 at weights[0..n-1] and plane 2 at
\* weights[WEIGHTS_PLANE2_OFFSET..WEIGHTS_PLANE2_OFFSET+n-1]; for every n in
\* 1..32 the two ranges are disjoint and inside the BLOCK_MAX_WEIGHTS = 64
\* entries of the array.
C29_PlaneRanges ==
    LET plane1(n) == 0..(n - 1)
        plane2(n) == WEIGHTS_PLANE2_OFFSET..(WEIGHTS_PLANE2_OFFSET + n - 1)
    IN  /\ BLOCK_MAX_WEIGHTS_2PLANE = 32
        /\ \A n \in 1..BLOCK_MAX_WEIGHTS_2PLANE :
               /\ plane1(n) \cap plane2(n) = {}
               /\ plane1(n) \cup plane2(n) \subseteq 0..(BLOCK_MAX_WEIGHTS - 1)
        /\ (/\ phys_pc # "start"
            /\ scb.block_type = SYM_BTYPE_NONCONST
            /\ scb.plane2_component # -1) =>
               \E n \in 1..BLOCK_MAX_WEIGHTS_2PLANE :
                   DOMAIN scb.weights = plane1(n) \cup plane2(n)

\* A decoded dual-plane block with the full 4x4 grid in each plane.
C29_Witness ==
    /\ phys_pc = "symbolic"
    /\ scb.block_type = SYM_BTYPE_NONCONST
    /\ scb.plane2_component # -1
    /\ DOMAIN scb.weights = (0..15) \cup (32..47)

\* C33: field widths match table sizes.  Every value of the
\* PARTITION_INDEX_BITS = 10 bit seed field is below BLOCK_MAX_PARTITIONINGS
\* = 1024 = 2^10 and every value of the 11 bit block mode field is below
\* WEIGHTS_MAX_BLOCK_MODES = 2048 = 2^11; so block_mode_packed_index indexed
\* by any raw block mode, and the table of a partition count that has a seed
\* field indexed by any seed, stay inside their arrays, and so does every
\* index that a decoded block carries.
C33_FieldWidths ==
    LET seeds == 0..((2 ^ PARTITION_INDEX_BITS) - 1)
        raw_modes == 0..((2 ^ 11) - 1)
        partitions == 0..(3 * BLOCK_MAX_PARTITIONINGS)
    IN  /\ 2 ^ PARTITION_INDEX_BITS = BLOCK_MAX_PARTITIONINGS
        /\ BLOCK_MAX_PARTITIONINGS = 1024
        /\ 2 ^ 11 = WEIGHTS_MAX_BLOCK_MODES
        /\ WEIGHTS_MAX_BLOCK_MODES = 2048
        /\ phys_pc # "start" =>
               /\ \A mode \in raw_modes : mode \in DOMAIN block_mode_packed_index
               /\ \A partition_count \in 2..BLOCK_MAX_PARTITIONS :
                      \A seed \in seeds :
                          /\ seed < BLOCK_MAX_PARTITIONINGS
                          /\ get_partition_info(partition_count, seed)
                                 \in partitions
               /\ read_bits(pcb, 0, 11) \in DOMAIN block_mode_packed_index
               /\ scb.block_type = SYM_BTYPE_NONCONST =>
                      /\ scb.partition_index \in seeds
                      /\ get_partition_info(scb.partition_count,
                                            scb.partition_index) \in partitions

\* A decoded block of three partitions whose seed has its top bit set.
C33_Witness ==
    /\ phys_pc = "symbolic"
    /\ scb.block_type = SYM_BTYPE_NONCONST
    /\ scb.partition_count = 3
    /\ scb.partition_index >= 512
    /\ get_partition_info(scb.partition_count, scb.partition_index) >= 1536

\* ============================================================= image_block
\* A float that is not a number: it compares unequal to every float, itself
\* included.  The other floats of the model are whole numbers.
NaN == -1

\* image_block::get_default_alpha().
get_default_alpha == IF alpha_lns[1] # 0 THEN 30720 ELSE 65535

\* image_block::is_luminance().  The default alpha is a number, so a lane
\* equals it under operator== exactly when it is that number.
is_luminance ==
    LET default_alpha == get_default_alpha
        alpha1 == data_min = default_alpha /\ data_max = default_alpha
    IN  grayscale /\ alpha1

\* Mutant of is_luminancealpha: alpha1 is not negated.
is_luminancealpha_same ==
    LET default_alpha == get_default_alpha
        alpha1 == data_min = default_alpha /\ data_max = default_alpha
    IN  grayscale /\ alpha1

\* image_block::is_luminancealpha().
is_luminancealpha ==
    LET default_alpha == get_default_alpha
        alpha1 == data_min = default_alpha /\ data_max = default_alpha
    IN  grayscale /\ ~alpha1

\* An image block: the fields the two tests read.  Alpha values are in the
\* scaled range, 0x7800 and 0xFFFF among them, or not a number; the minimum
\* of the lane is not above its maximum.
ImgInit ==
    /\ ParallelManager
    /\ ise_unused
    /\ bsd_unused
    /\ phys_unused
    /\ call_unused
    /\ mem_unused
    /\ grayscale \in BOOLEAN
    /\ alpha_lns \in [1..MaxLnsTexels -> {0, 1, 255}]
    /\ data_min \in {0, 30720, 30721, 65535, NaN}
    /\ data_max \in {0, 30720, 30721, 65535, NaN}
    /\ data_min = NaN \/ data_max = NaN \/ data_min <= data_max
    /\ luminance = FALSE
    /\ luminancealpha = FALSE
    /\ img_pc = "start"

is_luminance_call ==
    /\ img_pc = "start"
    /\ luminance' = is_luminance
    /\ img_pc' = "luminance"
    /\ UNCHANGED <<grayscale, alpha_lns, data_min, data_max, luminancealpha>>

is_luminancealpha_call ==
    /\ img_pc = "luminance"
    /\ luminancealpha' = is_luminancealpha
    /\ img_pc' = "both"
    /\ UNCHANGED <<grayscale, alpha_lns, data_min, data_max, luminance>>

ImgNext ==
    \/ is_luminance_call
       /\ UNCHANGED <<manager, ise_vars, bsd_vars, phys_vars, call_vars, mem_vars>>
    \/ is_luminancealpha_call
       /\ UNCHANGED <<manager, ise_vars, bsd_vars, phys_vars, call_vars, mem_vars>>

ImgSpec == ImgInit /\ [][ImgNext]_vars

\* C32: is_luminance() and is_luminancealpha() are never both true; both are
\* false when grayscale is false and exactly one is true when it is set;
\* is_luminance() is then true iff the alpha minimum and maximum both equal
\* the default alpha, 0x7800 when alpha_lns[0] is set and 0xFFFF otherwise.
C32_LuminanceTests ==
    img_pc = "both" =>
        /\ ~(luminance /\ luminancealpha)
        /\ ~grayscale => (~luminance /\ ~luminancealpha)
        /\ grayscale => (luminance # luminancealpha)
        /\ grayscale =>
               (luminance <=>
                    LET default_alpha ==
                            IF alpha_lns[1] = 0 THEN 65535 ELSE 30720
                    IN  data_min = default_alpha /\ data_max = default_alpha)

\* A greyscale HDR-alpha block of constant alpha 0x7800, and the flag of its
\* first texel is not 1.
C32_Witness ==
    /\ img_pc = "both"
    /\ grayscale
    /\ alpha_lns[1] = 255
    /\ data_min = 30720
    /\ data_max = 30720
    /\ luminance

\* ========================================================== aligned_malloc
\* Pointers are 0 (the null pointer) or one of the addresses 1..MaxPtr.
\* After the declarations "void* ptr; int error = 0;": ptr is not
\* initialized and holds any pointer value.
MemInit ==
    /\ ParallelManager
    /\ ise_unused
    /\ bsd_unused
    /\ phys_unused
    /\ call_unused
    /\ img_unused
    /\ win32 \in BOOLEAN
    /\ size \in 0..MaxSize
    /\ align \in {2, 3, 8, 16}
    /\ ptr \in 0..MaxPtr
    /\ error = 0
    /\ ptr_set = FALSE
    /\ result = 0
    /\ mem_pc = "declared"

\* ptr = _aligned_malloc(size, align): the buffer, or null on failure.
aligned_malloc_win32 ==
    /\ mem_pc = "declared"
    /\ win32
    /\ ptr' \in 0..MaxPtr
    /\ ptr_set' = TRUE
    /\ mem_pc' = "allocated"
    /\ UNCHANGED <<win32, size, align, error, result>>

\* error = posix_memalign(&ptr, align, size).  It succeeds only for an
\* alignment that is a power of two and a multiple of sizeof(void*), returns
\* 0 and stores the buffer (for size 0 possibly null); or it fails with
\* EINVAL (22) or ENOMEM (12) and leaves ptr as it was or sets it to null.
posix_memalign ==
    /\ mem_pc = "declared"
    /\ ~win32
    /\ \/ /\ align \in {8, 16}
          /\ error' = 0
          /\ ptr' \in (1..MaxPtr) \cup (IF size = 0 THEN {0} ELSE {})
          /\ ptr_set' = TRUE
       \/ /\ error' = IF align \in {8, 16} THEN 12 ELSE 22
          /\ \E nulled \in BOOLEAN :
                 /\ ptr' = IF nulled THEN 0 ELSE ptr
                 /\ ptr_set' = nulled
    /\ mem_pc' = "allocated"
    /\ UNCHANGED <<win32, size, align, result>>

\* Mutant of aligned_malloc_return: error is not tested.
aligned_malloc_return_noerror ==
    /\ mem_pc = "allocated"
    /\ result' = IF ptr = 0 THEN 0 ELSE ptr
    /\ mem_pc' = "returned"
    /\ UNCHANGED <<win32, size, align, ptr, error, ptr_set>>

\* if (error || (!ptr)) return nullptr; return static_cast<T*>(ptr);
aligned_malloc_return ==
    /\ mem_pc = "allocated"
    /\ result' = IF error # 0 \/ ptr = 0 THEN 0 ELSE ptr
    /\ mem_pc' = "returned"
    /\ UNCHANGED <<win32, size, align, ptr, error, ptr_set>>

MemNext ==
    \/ aligned_malloc_win32
       /\ UNCHANGED <<manager, ise_vars, bsd_vars, phys_vars, call_vars, img_vars>>
    \/ posix_memalign
       /\ UNCHANGED <<manager, ise_vars, bsd_vars, phys_vars, call_vars, img_vars>>
    \/ aligned_malloc_return
       /\ UNCHANGED <<manager, ise_vars, bsd_vars, phys_vars, call_vars, img_vars>>

MemSpec == MemInit /\ [][MemNext]_vars

\* C34: aligned_malloc returns nullptr whenever the allocator reported an
\* error or yielded a null pointer, and otherwise the allocated pointer; a
\* pointer it returns is one the allocator stored.
C34_NullOnFailure ==
    mem_pc = "returned" =>
        /\ (error # 0 \/ (ptr_set /\ ptr = 0)) => result = 0
        /\ (error = 0 /\ ptr # 0) => result = ptr
        /\ result # 0 => (ptr_set /\ result = ptr)

\* posix_memalign failed with ENOMEM and left the uninitialized ptr, which is
\* not null, as it was; nullptr was returned.
C34_Witness ==
    /\ mem_pc = "returned"
    /\ ~win32
    /\ error = 12
    /\ ~ptr_set
    /\ ptr = MaxPtr
    /\ result = 0

====
